---- MODULE Spec2Model ----
(***************************************************************************)
(* A model of mistlib's configuration manager (lib/config.cpp) and of the  *)
(* delta-vector codec of lib/json.h.                                       *)
(*                                                                         *)
(*  - SpecCodec  : encodeVector/decodeVector and their 4-byte variants,    *)
(*                 applied to bounded input sequences.                     *)
(*  - Spec       : the option registry: the constructors, addOption,       *)
(*                 getOption and its typed accessors, parseArgs.           *)
(*  - SpecServer : serveThreadedSocket/serveForkedSocket, activate(), the  *)
(*                 signal handler, the accept loops, the worker threads    *)
(*                 and the forked children.  FairServer adds the fairness  *)
(*                 of the main thread's scheduling.                        *)
(***************************************************************************)
EXTENDS Integers, Sequences, FiniteSets, TLC

VARIABLES
  \* ---- the option registry (Util::Config) and the process -------------
  vals,             \* Config::vals: option name -> option object
  long_count,       \* Config::long_count
  printDebugLevel,  \* Config::printDebugLevel, an unsigned int: a pair <<h, l>>
  status,           \* "running", "exited" (exit() was called) or "killed"
  exitCode,         \* the argument of exit(), -1 while none was made
  output,           \* what was written to std::cout, in order
  call,             \* the last API call made, with its arguments
  retval,           \* what the last API call returned
  adds,             \* number of addOption calls made so far
  parsed,           \* parseArgs has been called
  \* ---- the service (activate, signals, dispatch) -----------------------
  is_active,        \* Config::is_active
  sigDisp,          \* signal -> installed disposition
  signalled,        \* signal_handler has run its termination branch
  pc,               \* position of the main thread
  entry,            \* the API function the main thread was called into
  activated,        \* activate() has been entered
  listener,         \* the Socket::Server of the dispatch loop
  entryActive,      \* is_active when the dispatch loop was called: "unset",
                    \* "active" or "inactive"
  acceptCalled,     \* the parent has called server_socket.accept()
  conns,            \* accepted connections, with their worker or child
  \* ---- the codec --------------------------------------------------------
  width,            \* chunk width in bytes of the codec under test (2 or 4)
  charSigned,       \* whether plain char is signed in this build
  seq,              \* the input sequence
  enc,              \* the encoder's output
  dec,              \* the decoder's output
  phase,            \* "input", "encoded", "decoded"
  \* ---- the child-termination branch of signal_handler -------------------
  children,         \* the children of the process: "running", "zombie"
                    \* (terminated, not waited for) or "reaped"
  reap              \* the handler's position, ret, errno, and what it found
                    \* when it started

configVars == <<vals, long_count, printDebugLevel, status, exitCode, output, call, retval,
                adds, parsed>>
serverVars == <<is_active, sigDisp, signalled, pc, entry, activated, listener, entryActive,
                acceptCalled, conns>>
codecVars == <<width, charSigned, seq, enc, dec, phase>>
reapVars == <<children, reap>>
vars == <<vals, long_count, printDebugLevel, status, exitCode, output, call, retval,
          adds, parsed,
          is_active, sigDisp, signalled, pc, entry, activated, listener, entryActive,
          acceptCalled, conns,
          width, charSigned, seq, enc, dec, phase,
          children, reap>>

(***************************************************************************)
(* Bounds of the model.                                                    *)
(***************************************************************************)
\* longest input sequence given to the codec
MaxLen == 2
\* most connections one run of a dispatch loop accepts
MaxConn == 2
\* most addOption calls made on one Config
MaxAdds == 2

\* the length of the longest byte string handed to the decoders
MaxBytes == 5

\* the number of children the process has when SIGCHLD is handled
MaxChildren == 2

\* the number of times waitpid is interrupted while SIGCHLD is handled
MaxIntr == 2

(***************************************************************************)
(* C integer arithmetic.  TLC's integers are 32-bit and signed, so a       *)
(* `long long' and an `unsigned int' are kept as a pair <<h, l>> standing  *)
(* for h * 65536 + l, with 0 <= l < 65536.                                 *)
(***************************************************************************)
\* the wide number of a natural n that TLC can hold
W(n) == <<n \div 65536, n % 65536>>

\* a >= b on long long
WGe(a, b) == a[1] > b[1] \/ (a[1] = b[1] /\ a[2] >= b[2])

\* a - b on long long, for a >= b
WSub(a, b) ==
  IF a[2] >= b[2] THEN <<a[1] - b[1], a[2] - b[2]>>
  ELSE <<a[1] - b[1] - 1, a[2] - b[2] + 65536>>

\* a + b on unsigned int: the sum modulo 2^32
U32Add(a, b) ==
  LET l == a[2] + b[2]
  IN  <<(a[1] + b[1] + (l \div 65536)) % 65536, l % 65536>>

\* the conversion to unsigned int of hi * 65536 + lo, for ints hi and lo of
\* either sign: the value modulo 2^32 (\div rounds down, % is never negative)
ToU32(hi, lo) == <<(hi + (lo \div 65536)) % 65536, lo % 65536>>

\* the conversion (char)x of an integer to a byte
ToChar(x) == x % 256

\* the value of the char holding byte b, promoted to int: sign-extended
\* where plain char is signed
CharVal(b, signed) == IF signed /\ b >= 128 THEN b - 256 ELSE b

\* 0xFFFF, the largest 2-byte chunk
Max2 == 65535

\* 0xFFFFFFFF, the largest 4-byte chunk
Max4 == <<65535, 65535>>

(***************************************************************************)
(* json.h: encodeVector, decodeVector, encodeVector4, decodeVector4.       *)
(***************************************************************************)
\* input[i] of a std::string, i counted from 0: the byte, the terminating
\* '\0' at i = size(), and past that whatever lies behind the buffer (oob)
ByteAt(input, i, oob) ==
  IF i < Len(input) THEN input[i + 1]
  ELSE IF i = Len(input) THEN 0
  ELSE oob

\* encodeVector's element with the loop test tmp > 0xFFFF
RECURSIVE encodeElemMutant(_)
encodeElemMutant(tmp) ==
  IF WGe(tmp, W(Max2 + 1))
  THEN <<255, 255>> \o encodeElemMutant(WSub(tmp, W(Max2)))
  ELSE <<ToChar(tmp[2] \div 256), ToChar(tmp[2] % 256)>>

\* the inner loop and the closing chunk of encodeVector for one element
RECURSIVE encodeElem(_)
encodeElem(tmp) ==
  IF WGe(tmp, W(Max2))
  THEN <<255, 255>> \o encodeElem(WSub(tmp, W(Max2)))
  ELSE <<ToChar(tmp[2] \div 256), ToChar(tmp[2] % 256)>>

RECURSIVE encodeVector(_)
encodeVector(s) ==
  IF s = <<>> THEN <<>> ELSE encodeElem(Head(s)) \o encodeVector(Tail(s))

\* the loop of decodeVector from index i on, with the running total tmp
RECURSIVE decodeLoop(_, _, _, _, _)
decodeLoop(input, i, tmp, result, signed) ==
  IF i >= Len(input) THEN result
  ELSE LET curLen == ToU32(0, CharVal(ByteAt(input, i, 0), signed) * 256
                              + CharVal(ByteAt(input, i + 1, 0), signed))
           sum == U32Add(tmp, curLen)
       IN  IF curLen # W(Max2)
           THEN decodeLoop(input, i + 2, W(0), Append(result, sum), signed)
           ELSE decodeLoop(input, i + 2, sum, result, signed)

decodeVector(input, signed) == decodeLoop(input, 0, W(0), <<>>, signed)

\* the inner loop and the closing chunk of encodeVector4 for one element
RECURSIVE encodeElem4(_)
encodeElem4(tmp) ==
  IF WGe(tmp, Max4)
  THEN <<255, 255, 255, 255>> \o encodeElem4(WSub(tmp, Max4))
  ELSE <<ToChar((tmp[1] % 65536) \div 256), ToChar(tmp[1] % 256),
         ToChar(tmp[2] \div 256), ToChar(tmp[2] % 256)>>

RECURSIVE encodeVector4(_)
encodeVector4(s) ==
  IF s = <<>> THEN <<>> ELSE encodeElem4(Head(s)) \o encodeVector4(Tail(s))

\* the loop of decodeVector4 from index i on, with the running total tmp
RECURSIVE decodeLoop4(_, _, _, _, _, _)
decodeLoop4(input, i, tmp, result, signed, oob) ==
  IF i >= Len(input) THEN result
  ELSE LET curLen == ToU32(CharVal(ByteAt(input, i, oob), signed) * 256
                             + CharVal(ByteAt(input, i + 1, oob), signed),
                           CharVal(ByteAt(input, i + 2, oob), signed) * 256
                             + CharVal(ByteAt(input, i + 3, oob), signed))
           sum == U32Add(tmp, curLen)
       IN  IF curLen # Max4
           THEN decodeLoop4(input, i + 4, W(0), Append(result, sum), signed, oob)
           ELSE decodeLoop4(input, i + 4, sum, result, signed, oob)

decodeVector4(input, signed, oob) == decodeLoop4(input, 0, W(0), <<>>, signed, oob)

(***************************************************************************)
(* The option registry.  Config::vals is a JSON object: here a function    *)
(* from option names to option objects, an option object a function from  *)
(* its member names ("short", "long", "short_off", "long_off", "arg",      *)
(* "value", "default", "arg_num", "help") to their values.  A value list   *)
(* holds integers IntV(n), strings StrV(s) and the empty value NullV.      *)
(***************************************************************************)
IntV(n) == [i |-> n]
StrV(s) == [s |-> s]
NullV == [null |-> TRUE]

\* the compile-time DEBUG level the constructors store as the default
DebugDefault == 4

\* every option name of the model, in the order of std::map<std::string, ...>
NameOrder ==
  <<"cmd", "count", "daemonize", "debug", "file", "help", "json",
    "listen_interface", "listen_port", "logfile", "socket", "username", "version">>

\* the members of a JSON object in the order forEachMember visits them
Members(v) == SelectSeq(NameOrder, LAMBDA n : n \in DOMAIN v)

isMember(o, k) == k \in DOMAIN o

\* o["value"].size() > 0, with isMember("value") checked first
HasValue(o) == isMember(o, "value") /\ Len(o.value) > 0

\* o["value"].append(x): creates the list when the member is absent
appendValue(o, x) ==
  [f \in DOMAIN o \cup {"value"} |->
     IF f = "value" THEN Append(IF isMember(o, "value") THEN o.value ELSE <<>>, x)
     ELSE o[f]]

\* vals.removeMember(name)
removeMember(v, name) == [n \in DOMAIN v \ {name} |-> v[n]]

\* JSON::Value::asString, asInt and asBool on the values of the model
asString(x) ==
  IF isMember(x, "s") THEN x.s
  ELSE IF isMember(x, "i")
       THEN (CASE x.i = 0 -> "0" [] x.i = 1 -> "1" [] x.i = 4 -> "4"
               [] x.i = 5 -> "5" [] x.i = 42 -> "42" [] OTHER -> "n")
       ELSE ""

asInt(x) ==
  IF isMember(x, "i") THEN x.i
  ELSE IF isMember(x, "s")
       THEN (CASE x.s = "0" -> 0 [] x.s = "1" -> 1 [] x.s = "4" -> 4 [] x.s = "-1" -> -1
               [] x.s = "5" -> 5 [] x.s = "7" -> 7 [] x.s = "42" -> 42 [] OTHER -> 0)
       ELSE 0

asBool(x) ==
  IF isMember(x, "i") THEN x.i # 0
  ELSE IF isMember(x, "s") THEN x.s # ""
       ELSE FALSE

\* Config::Config(): only "debug" is registered and long_count is not set
DefaultConfigVals ==
  [debug |-> [long |-> "Debug", short |-> "g", arg |-> "integer",
              help |-> "debug level", value |-> <<IntV(DebugDefault)>>]]

\* Config::Config(cmd, version)
NamedConfigVals ==
  [cmd |-> [value |-> <<StrV("prog")>>],
   version |-> [long |-> "version", short |-> "v", help |-> "version",
                value |-> <<StrV("libver"), StrV("appver")>>],
   help |-> [long |-> "help", short |-> "h", help |-> "usage"],
   debug |-> [long |-> "debug", short |-> "g", arg |-> "integer",
              help |-> "debug level", value |-> <<IntV(DebugDefault)>>]]

\* the value Config(cmd, version) gives long_count
NamedConfigLongCount == 2

\* the values an int that was never initialised may hold
Uninitialised == {0, 6}

\* the scan of addOption over the members ms of v, counting from n
RECURSIVE countLong(_, _, _)
countLong(v, ms, n) ==
  IF ms = <<>> THEN n
  ELSE LET val == v[Head(ms)]
           n1 == IF isMember(val, "long") THEN n + 1 ELSE n
           n2 == IF isMember(val, "long_off") THEN n1 + 1 ELSE n1
       IN  countLong(v, Tail(ms), n2)

\* vals after addOption(optname, option)
addOptionVals(v, optname, option) ==
  LET stored ==
        IF ~isMember(option, "value") /\ isMember(option, "default")
        THEN [f \in (DOMAIN option \ {"default"}) \cup {"value"} |->
                IF f = "value" THEN <<option["default"]>> ELSE option[f]]
        ELSE option
  IN  [n \in DOMAIN v \cup {optname} |-> IF n = optname THEN stored ELSE v[n]]

\* long_count after addOption, given the vals it left and the old count
addOptionCount(v, old) == countLong(v, Members(v), 0)

\* vals after getOption(optname) on a registered name: the lazily inserted
\* placeholder
getOptionVals(v, optname) ==
  IF ~isMember(v[optname], "value")
  THEN [v EXCEPT ![optname] = appendValue(v[optname], NullV)]
  ELSE v

\* what getOption(optname, asArray) returns on a registered name; indexing
\* an empty list at n - 1 yields no element of the list
getOptionRet(v, optname, asArray) ==
  LET list == getOptionVals(v, optname)[optname].value
  IN  IF asArray THEN [list |-> list]
      ELSE IF Len(list) = 0 THEN [none |-> TRUE] ELSE list[Len(list)]

(***************************************************************************)
(* parseArgs.  The command line is a sequence of tokens: Short(c) is "-c", *)
(* Long(n) is "--n", Word(w) is a bare token.  getopt_long is modelled by  *)
(* what it returns for the tables parseArgs hands it: the option character *)
(* (or "?"), optarg, and the bare tokens it leaves for the end.            *)
(***************************************************************************)
Short(c) == [k |-> "short", x |-> c]
Long(n) == [k |-> "long", x |-> n]
Word(w) == [k |-> "word", x |-> w]

\* the text of the token an option takes as its argument: getopt_long takes
\* the next element of argv whatever it looks like
TokText(t) ==
  IF t.k = "word" THEN t.x
  ELSE IF t.k = "short" /\ t.x = "1" THEN "-1" ELSE "-opt"

\* shortopts, as the sequence of its characters
RECURSIVE buildShort(_, _)
buildShort(v, ms) ==
  IF ms = <<>> THEN <<>>
  ELSE LET val == v[Head(ms)]
           colon == IF isMember(val, "arg") THEN <<":">> ELSE <<>>
           on == IF isMember(val, "short") THEN <<val.short>> \o colon ELSE <<>>
           off == IF isMember(val, "short_off") THEN <<val.short_off>> \o colon ELSE <<>>
       IN  on \o off \o buildShort(v, Tail(ms))

\* the entries written to longOpts, in order; an absent "short" reads as
\* the empty string, whose first character is NUL (here "")
RECURSIVE buildLong(_, _)
buildLong(v, ms) ==
  IF ms = <<>> THEN <<>>
  ELSE LET val == v[Head(ms)]
           has_arg == IF isMember(val, "arg") THEN 1 ELSE 0
           on == IF isMember(val, "long")
                 THEN <<[name |-> val.long,
                         val |-> IF isMember(val, "short") THEN val.short ELSE "",
                         has_arg |-> has_arg]>>
                 ELSE <<>>
           off == IF isMember(val, "long_off")
                  THEN <<[name |-> val.long_off,
                          val |-> IF isMember(val, "short_off") THEN val.short_off ELSE "",
                          has_arg |-> has_arg]>>
                  ELSE <<>>
       IN  on \o off \o buildLong(v, Tail(ms))

\* arg_count: the highest arg_num among the entries without a preset value
RECURSIVE argCount(_, _, _)
argCount(v, ms, arg_count) ==
  IF ms = <<>> THEN arg_count
  ELSE LET val == v[Head(ms)]
       IN  argCount(v, Tail(ms),
                    IF isMember(val, "arg_num") /\ ~HasValue(val) /\ val.arg_num > arg_count
                    THEN val.arg_num ELSE arg_count)

\* the first index of x in the sequence s, 0 when it has none
firstIndex(s, x) ==
  IF \E i \in 1..Len(s) : s[i] = x
  THEN CHOOSE i \in 1..Len(s) : s[i] = x /\ \A j \in 1..(i - 1) : s[j] # x
  ELSE 0

\* the first index of the long option named n in the table lo, 0 when none
firstLong(lo, n) ==
  IF \E i \in 1..Len(lo) : lo[i].name = n
  THEN CHOOSE i \in 1..Len(lo) : lo[i].name = n /\ \A j \in 1..(i - 1) : lo[j].name # n
  ELSE 0

\* one call of getopt_long at the option token toks[i]: what it returns,
\* optarg, and the index of the token it goes on from
getoptNext(toks, i, so, lo) ==
  LET t == toks[i]
      si == firstIndex(so, t.x)
      li == firstLong(lo, t.x)
      known == IF t.k = "short" THEN si > 0 ELSE li > 0
      takesArg == IF t.k = "short" THEN si < Len(so) /\ so[si + 1] = ":"
                  ELSE lo[li].has_arg = 1
      opt == IF t.k = "short" THEN t.x ELSE lo[li].val
  IN  IF ~known THEN [opt |-> "?", optarg |-> "", next |-> i + 1]
      ELSE IF ~takesArg THEN [opt |-> opt, optarg |-> "", next |-> i + 1]
      ELSE IF i < Len(toks)
           THEN [opt |-> opt, optarg |-> TokText(toks[i + 1]), next |-> i + 2]
           ELSE [opt |-> "?", optarg |-> "", next |-> i + 1]

\* the default case with the off flag's character left unchecked
RECURSIVE applyFlagMutant(_, _, _, _)
applyFlagMutant(v, ms, opt, optarg) ==
  IF ms = <<>> THEN v
  ELSE LET val == v[Head(ms)]
       IN  IF isMember(val, "short") /\ val.short = opt
           THEN [v EXCEPT ![Head(ms)] =
                   appendValue(val, IF isMember(val, "arg") THEN StrV(optarg) ELSE IntV(1))]
           ELSE IF isMember(val, "short_off")
                THEN [v EXCEPT ![Head(ms)] = appendValue(val, IntV(0))]
                ELSE applyFlagMutant(v, Tail(ms), opt, optarg)

\* the default case of the switch: the first member, of those in ms, whose
\* short or short_off flag is opt gets one value appended
RECURSIVE applyFlag(_, _, _, _)
applyFlag(v, ms, opt, optarg) ==
  IF ms = <<>> THEN v
  ELSE LET val == v[Head(ms)]
       IN  IF isMember(val, "short") /\ val.short = opt
           THEN [v EXCEPT ![Head(ms)] =
                   appendValue(val, IF isMember(val, "arg") THEN StrV(optarg) ELSE IntV(1))]
           ELSE IF isMember(val, "short_off") /\ val.short_off = opt
                THEN [v EXCEPT ![Head(ms)] = appendValue(val, IntV(0))]
                ELSE applyFlag(v, Tail(ms), opt, optarg)

\* the getopt_long loop from token i on: the vals it leaves, the bare
\* tokens, why it stopped, and whether the long table was searched
RECURSIVE optionLoop(_, _, _, _, _, _, _)
optionLoop(v, toks, i, so, lo, pos, scanned) ==
  IF i > Len(toks)
  THEN [vals |-> v, pos |-> pos, stop |-> "none", scanned |-> scanned]
  ELSE IF toks[i].k = "word"
       THEN optionLoop(v, toks, i + 1, so, lo, Append(pos, toks[i].x), scanned)
       ELSE LET g == getoptNext(toks, i, so, lo)
                sc == scanned \/ toks[i].k = "long"
            IN  IF g.opt \in {"h", "?"}
                THEN [vals |-> v, pos |-> pos, stop |-> "help", scanned |-> sc]
                ELSE IF g.opt = "v"
                     THEN [vals |-> v, pos |-> pos, stop |-> "version", scanned |-> sc]
                     ELSE optionLoop(applyFlag(v, Members(v), g.opt, g.optarg),
                                     toks, g.next, so, lo, pos, sc)

\* the positional round that passes over the members with a preset value
RECURSIVE assignPositionalMutant(_, _, _, _)
assignPositionalMutant(v, ms, long_i, tok) ==
  IF ms = <<>> THEN v
  ELSE LET val == v[Head(ms)]
       IN  IF isMember(val, "arg_num") /\ val.arg_num = long_i /\ ~HasValue(val)
           THEN [v EXCEPT ![Head(ms)] = appendValue(val, StrV(tok))]
           ELSE assignPositionalMutant(v, Tail(ms), long_i, tok)

\* one round of the positional loop: the first member whose arg_num is
\* long_i gets the token appended
RECURSIVE assignPositional(_, _, _, _)
assignPositional(v, ms, long_i, tok) ==
  IF ms = <<>> THEN v
  ELSE LET val == v[Head(ms)]
       IN  IF isMember(val, "arg_num") /\ val.arg_num = long_i
           THEN [v EXCEPT ![Head(ms)] = appendValue(val, StrV(tok))]
           ELSE assignPositional(v, Tail(ms), long_i, tok)

RECURSIVE positionalLoop(_, _, _)
positionalLoop(v, pos, long_i) ==
  IF pos = <<>> THEN v
  ELSE positionalLoop(assignPositional(v, Members(v), long_i, Head(pos)),
                      Tail(pos), long_i + 1)

\* whether parseArgs fails, after the positional loop left long_i
tooFewMutant(long_i, arg_count) == long_i < arg_count

tooFew(long_i, arg_count) == long_i <= arg_count

\* what the help and version cases print before exit(1); getString exits
\* with 37 on a name that is not registered
exitPath(v, stop) ==
  LET help == IF stop = "help"
              THEN (IF isMember(v, "cmd") THEN <<"help">> ELSE <<"fatal">>)
              ELSE <<>>
      fatal == (stop = "help" /\ ~isMember(v, "cmd")) \/ ~isMember(v, "version")
      v1 == IF stop = "help" /\ isMember(v, "cmd") THEN getOptionVals(v, "cmd") ELSE v
  IN  IF stop = "help" /\ ~isMember(v, "cmd")
      THEN [out |-> <<"fatal">>, code |-> 37, vals |-> v]
      ELSE IF ~isMember(v1, "version")
           THEN [out |-> help \o <<"libversion", "fatal">>, code |-> 37, vals |-> v1]
           ELSE [out |-> help \o <<"libversion", "appversion">>, code |-> 1,
                 vals |-> getOptionVals(v1, "version")]

\* parseArgs on the tokens toks, with the registry v and long_count lc
parseArgsResult(v, lc, debug, toks) ==
  LET ms == Members(v)
      so == buildShort(v, ms)
      lo == buildLong(v, ms)
      arg_count == argCount(v, ms, 0)
      fl == optionLoop(v, toks, 1, so, lo, <<>>, FALSE)
      \* longOpts has lc + 1 zeroed entries: writing more than that is out
      \* of bounds, and so is the search of a table left without its
      \* terminating entry
      ub == Len(lo) > lc + 1 \/ (Len(lo) = lc + 1 /\ fl.scanned)
      v2 == positionalLoop(fl.vals, fl.pos, 1)
      long_i == Len(fl.pos) + 1
  IN  IF fl.stop # "none"
      THEN LET e == exitPath(fl.vals, fl.stop)
           IN  [kind |-> "exit", out |-> e.out, code |-> e.code, vals |-> e.vals,
                ret |-> FALSE, debug |-> debug, ub |-> ub,
                npos |-> Len(fl.pos), pos |-> fl.pos,
                 arg_count |-> arg_count]
      ELSE IF tooFew(long_i, arg_count)
           THEN [kind |-> "return", out |-> <<>>, code |-> -1, vals |-> v2,
                 ret |-> FALSE, debug |-> debug, ub |-> ub,
                 npos |-> Len(fl.pos), pos |-> fl.pos,
                 arg_count |-> arg_count]
           ELSE IF ~isMember(v2, "debug")
                THEN [kind |-> "exit", out |-> <<"fatal">>, code |-> 37, vals |-> v2,
                      ret |-> FALSE, debug |-> debug, ub |-> ub,
                      npos |-> Len(fl.pos), pos |-> fl.pos,
                 arg_count |-> arg_count]
                ELSE [kind |-> "return", out |-> <<>>, code |-> -1,
                      vals |-> getOptionVals(v2, "debug"), ret |-> TRUE,
                      debug |-> ToU32(0, asInt(getOptionRet(v2, "debug", FALSE))), ub |-> ub,
                      npos |-> Len(fl.pos), pos |-> fl.pos,
                 arg_count |-> arg_count]

(***************************************************************************)
(* The inputs of the registry's specification.                             *)
(***************************************************************************)
\* a positional argument without a preset value
OptCount == [arg_num |-> 1, arg |-> "integer", help |-> "count"]
\* a positional argument that carries a preset value
OptCountPreset == [arg_num |-> 1, arg |-> "integer", help |-> "count",
                   value |-> <<StrV("7")>>]
\* a second positional argument
OptFile == [arg_num |-> 2, arg |-> "string", help |-> "file"]
\* an option with an argument and a "default" member
OptFileFlag == [short |-> "f", long |-> "file", arg |-> "string", help |-> "file",
                default |-> StrV("x")]
\* the toggle pair addBasicConnectorOptions registers
OptDaemonize == [long |-> "daemon", short |-> "d", long_off |-> "nodaemon",
                 short_off |-> "n", help |-> "daemonize", value |-> <<IntV(0)>>]

\* an option without argument whose short flag is the one of OptFileFlag
OptCountFlag == [short |-> "f", help |-> "count"]
\* an option that has a long flag and no short flag
OptJson == [long |-> "json", help |-> "json"]

\* the addOption calls of the model
AddCalls ==
  { <<"count", OptCount>>, <<"count", OptCountPreset>>, <<"file", OptFile>>,
    <<"file", OptFileFlag>>, <<"daemonize", OptDaemonize>>,
    <<"count", OptCountFlag>>, <<"json", OptJson>> }

\* the names the accessors are called with
GetNames == {"debug", "count", "nonexistent"}

Accessors == {"getOption", "getString", "getInteger", "getBool"}

\* the command lines parseArgs is called with
CmdLines ==
  { <<>>,
    <<Word("42")>>,
    <<Word("42"), Word("x")>>,
    <<Short("g"), Word("5")>>,
    <<Short("g"), Word("5"), Word("42")>>,
    <<Short("g"), Word("5"), Short("g"), Word("7")>>,
    <<Short("g"), Short("1")>>,
    <<Short("g")>>,
    <<Short("h")>>,
    <<Short("v"), Word("42")>>,
    <<Short("x"), Short("g"), Word("5")>>,
    <<Short("d"), Word("42")>>,
    <<Short("n")>>,
    <<Short("f"), Word("x"), Word("42")>>,
    <<Long("debug"), Word("5")>>,
    <<Long("file"), Word("x")>>,
    <<Long("json")>>,
    <<Long("help")>> }

\* the service's variables while no service runs
ServerIdle ==
  /\ is_active = FALSE
  /\ sigDisp = [sig \in {"SIGINT", "SIGHUP", "SIGTERM", "SIGPIPE", "SIGCHLD"} |-> "SIG_DFL"]
  /\ signalled = FALSE
  /\ pc = "idle"
  /\ entry = "none"
  /\ activated = FALSE
  /\ listener = [kind |-> "none", connected |-> FALSE, closed |-> FALSE]
  /\ entryActive = "unset"
  /\ acceptCalled = FALSE
  /\ conns = <<>>

\* the handler's variables while no SIGCHLD is handled
ReapIdle ==
  /\ children = <<>>
  /\ reap = [pc |-> "idle"]

\* the codec's variables while no codec call is made
CodecIdle ==
  /\ width = 2
  /\ charSigned = FALSE
  /\ seq = <<>>
  /\ enc = <<>>
  /\ dec = <<>>
  /\ phase = "input"

\* the process after one of the two constructors has run
Constructed ==
  /\ \/ vals = NamedConfigVals /\ long_count = NamedConfigLongCount
     \/ vals = DefaultConfigVals /\ long_count \in Uninitialised
  /\ printDebugLevel = W(DebugDefault)
  /\ status = "running"
  /\ exitCode = -1
  /\ output = <<>>
  /\ call = [op |-> "Config", before |-> vals]
  /\ retval = [none |-> TRUE]
  /\ adds = 0
  /\ parsed = FALSE

Init == Constructed /\ ServerIdle /\ CodecIdle /\ ReapIdle

(***************************************************************************)
(* The registry's operations.                                              *)
(***************************************************************************)
\* Util::Config::addOption(optname, option); the schema is built before the
\* command line is parsed, as the connectors build it
AddOption(optname, option) ==
  /\ status = "running"
  /\ adds < MaxAdds
  /\ ~parsed
  /\ vals' = addOptionVals(vals, optname, option)
  /\ long_count' = addOptionCount(vals', long_count)
  /\ adds' = adds + 1
  /\ call' = [op |-> "addOption", name |-> optname, before |-> vals]
  /\ UNCHANGED <<printDebugLevel, status, exitCode, output, retval, parsed>>
  /\ UNCHANGED serverVars
  /\ UNCHANGED codecVars
  /\ UNCHANGED reapVars

\* what a call of getOption(optname, asArray), or of a typed accessor,
\* leaves: the exit of the process, or vals and the value returned
getOptionMutant(v, optname, asArray, accessor) ==
  LET w == IF isMember(v, optname) THEN v ELSE addOptionVals(v, optname, [help |-> ""])
      r == getOptionRet(w, optname, asArray)
  IN  [exit |-> -1, vals |-> getOptionVals(w, optname),
       ret |-> CASE accessor = "getString" -> StrV(asString(r))
                 [] accessor = "getInteger" -> IntV(asInt(r))
                 [] accessor = "getBool" -> [b |-> asBool(r)]
                 [] OTHER -> r]

getOption(v, optname, asArray, accessor) ==
  IF ~isMember(v, optname)
  THEN [exit |-> 37, vals |-> v, ret |-> [none |-> TRUE]]
  ELSE LET r == getOptionRet(v, optname, asArray)
       IN  [exit |-> -1, vals |-> getOptionVals(v, optname),
            ret |-> CASE accessor = "getString" -> StrV(asString(r))
                      [] accessor = "getInteger" -> IntV(asInt(r))
                      [] accessor = "getBool" -> [b |-> asBool(r)]
                      [] OTHER -> r]

\* Util::Config::getOption, getString, getInteger, getBool
GetOption(optname, asArray, accessor) ==
  /\ status = "running"
  /\ LET g == getOption(vals, optname, asArray, accessor)
     IN  /\ vals' = g.vals
         /\ IF g.exit # -1
            THEN /\ status' = "exited"
                 /\ exitCode' = g.exit
                 /\ output' = Append(output, "fatal")
                 /\ retval' = retval
            ELSE /\ retval' = g.ret
                 /\ UNCHANGED <<status, exitCode, output>>
  /\ call' = [op |-> accessor, name |-> optname, asArray |-> asArray, before |-> vals]
  /\ UNCHANGED <<long_count, printDebugLevel, adds, parsed>>
  /\ UNCHANGED serverVars
  /\ UNCHANGED codecVars
  /\ UNCHANGED reapVars

\* Util::Config::parseArgs(argc, argv)
ParseArgs(toks) ==
  /\ status = "running"
  /\ ~parsed
  /\ parsed' = TRUE
  /\ LET r == parseArgsResult(vals, long_count, printDebugLevel, toks)
     IN  /\ call' = [op |-> "parseArgs", toks |-> toks, before |-> vals,
                     npos |-> r.npos, pos |-> r.pos, kind |-> r.kind]
         /\ \/ /\ vals' = r.vals
               /\ printDebugLevel' = r.debug
               /\ output' = output \o r.out
               /\ IF r.kind = "exit"
                  THEN status' = "exited" /\ exitCode' = r.code /\ retval' = retval
                  ELSE retval' = [b |-> r.ret] /\ UNCHANGED <<status, exitCode>>
            \/ \* out-of-bounds use of longOpts: the process may as well crash
               /\ r.ub
               /\ status' = "killed"
               /\ UNCHANGED <<vals, printDebugLevel, output, exitCode, retval>>
  /\ UNCHANGED <<long_count, adds>>
  /\ UNCHANGED serverVars
  /\ UNCHANGED codecVars
  /\ UNCHANGED reapVars

Next ==
  \/ \E a \in AddCalls : AddOption(a[1], a[2])
  \/ \E n \in GetNames : GetOption(n, FALSE, "getOption")
  \/ \E n \in GetNames : GetOption(n, TRUE, "getOption")
  \/ \E n \in GetNames, acc \in Accessors \ {"getOption"} : GetOption(n, FALSE, acc)
  \/ \E toks \in CmdLines : ParseArgs(toks)

Spec == Init /\ [][Next]_vars

(***************************************************************************)
(* The accessors' specification: getOption and the typed accessors are     *)
(* called on a registry whose entry "count" was registered without a value *)
(* list, with an empty one, or with a preset value.                        *)
(***************************************************************************)
\* a positional argument registered with "value":[]
OptCountEmpty == [arg_num |-> 1, arg |-> "integer", help |-> "count", value |-> <<>>]

GetPool == {OptCount, OptCountEmpty, OptCountPreset}

InitGet ==
  /\ \E o \in GetPool :
       /\ vals = addOptionVals(NamedConfigVals, "count", o)
       /\ long_count = addOptionCount(vals, NamedConfigLongCount)
  /\ printDebugLevel = W(DebugDefault)
  /\ status = "running"
  /\ exitCode = -1
  /\ output = <<>>
  /\ call = [op |-> "addOption", name |-> "count", before |-> NamedConfigVals]
  /\ retval = [none |-> TRUE]
  /\ adds = 1
  /\ parsed = FALSE
  /\ ServerIdle
  /\ ReapIdle
  /\ CodecIdle

NextGet ==
  \/ \E n \in GetNames : GetOption(n, FALSE, "getOption")
  \/ \E n \in GetNames : GetOption(n, TRUE, "getOption")
  \/ \E n \in GetNames, acc \in Accessors \ {"getOption"} : GetOption(n, FALSE, acc)

SpecGet == InitGet /\ [][NextGet]_vars

(***************************************************************************)
(* The codec's specification: an input sequence is drawn, encoded and the  *)
(* encoding decoded, at one of the two widths.                             *)
(***************************************************************************)
\* the elements the input sequences are made of, per width: zero, small
\* values, values whose bytes have the top bit set, the chunk maximum and
\* values above it
InputValues(w) ==
  IF w = 2
  THEN {W(0), W(10), W(127), W(128), W(256), W(Max2 - 1), W(Max2), W(Max2 + 1)}
  ELSE {W(0), W(10), W(128), <<32768, 0>>, <<65535, 65534>>, Max4, <<65536, 0>>,
        <<131071, 65534>>}

\* the sequences over S of length at most n
SeqsUpTo(S, n) == UNION {[1..k -> S] : k \in 0..n}

InitCodec ==
  /\ width \in {2, 4}
  /\ charSigned \in BOOLEAN
  /\ seq \in SeqsUpTo(InputValues(width), MaxLen)
  /\ enc = <<>>
  /\ dec = <<>>
  /\ phase = "input"
  /\ Constructed
  /\ ServerIdle
  /\ ReapIdle

\* a call of encodeVector or encodeVector4 on the input sequence
Encode ==
  /\ phase = "input"
  /\ enc' = IF width = 2 THEN encodeVector(seq) ELSE encodeVector4(seq)
  /\ phase' = "encoded"
  /\ UNCHANGED <<width, charSigned, seq, dec>>
  /\ UNCHANGED configVars
  /\ UNCHANGED serverVars
  /\ UNCHANGED reapVars

\* a call of decodeVector or decodeVector4 on the encoder's output
Decode ==
  /\ phase = "encoded"
  /\ dec' = IF width = 2 THEN decodeVector(enc, charSigned)
            ELSE decodeVector4(enc, charSigned, 0)
  /\ phase' = "decoded"
  /\ UNCHANGED <<width, charSigned, seq, enc>>
  /\ UNCHANGED configVars
  /\ UNCHANGED serverVars
  /\ UNCHANGED reapVars

NextCodec == Encode \/ Decode

SpecCodec == InitCodec /\ [][NextCodec]_vars

(***************************************************************************)
(* The decoders' specification: decodeVector and decodeVector4 are called  *)
(* on a byte string that no encoder has made.                              *)
(***************************************************************************)
\* the bytes the strings are made of: zero, a small byte, the largest byte
RawBytes == {0, 1, 255}

\* the highest index the decoding loop of chunk width w reads in a string
\* of len bytes, from the loop index i on; hi when the body never runs
RECURSIVE highestRead(_, _, _, _)
highestRead(len, i, w, hi) ==
  IF i >= len THEN hi ELSE highestRead(len, i + w, w, i + w - 1)

\* whether the loop reads behind the terminating '\0' of the string, which
\* operator[] does not define
readsBehind(input, w) == highestRead(Len(input), 0, w, -1) > Len(input)

InitDecode ==
  /\ width \in {2, 4}
  /\ charSigned \in BOOLEAN
  /\ seq = <<>>
  /\ enc \in SeqsUpTo(RawBytes, MaxBytes)
  /\ dec = <<>>
  /\ phase = "encoded"
  /\ Constructed
  /\ ServerIdle
  /\ ReapIdle

\* a call of decodeVector or decodeVector4 on the byte string enc; a read
\* behind the buffer yields some byte or ends the process
DecodeBytes ==
  /\ phase = "encoded"
  /\ status = "running"
  /\ phase' = "decoded"
  /\ \/ /\ \E oob \in (IF readsBehind(enc, width) THEN RawBytes ELSE {0}) :
             dec' = IF width = 2 THEN decodeVector(enc, charSigned)
                    ELSE decodeVector4(enc, charSigned, oob)
        /\ UNCHANGED status
     \/ /\ readsBehind(enc, width)
        /\ status' = "killed"
        /\ UNCHANGED dec
  /\ UNCHANGED <<width, charSigned, seq, enc>>
  /\ UNCHANGED <<vals, long_count, printDebugLevel, exitCode, output, call, retval>>
  /\ UNCHANGED <<adds, parsed>>
  /\ UNCHANGED serverVars
  /\ UNCHANGED reapVars

NextDecode == DecodeBytes

SpecDecode == InitDecode /\ [][NextDecode]_vars

(***************************************************************************)
(* printHelp.  A line of the help text is kept as the flag text or the     *)
(* positional name f, the same padded (head), and what follows it (descr). *)
(***************************************************************************)
\* the larger of two unsigned ints
largerOf(current, longest) == IF current > longest THEN current ELSE longest

\* the first forEachMember of printHelp: longest
RECURSIVE helpLongest(_, _, _)
helpLongest(v, ms, longest) ==
  IF ms = <<>> THEN longest
  ELSE LET val == v[Head(ms)]
           on == (IF isMember(val, "long") THEN Len(asString(StrV(val.long))) + 4 ELSE 0)
                 + (IF isMember(val, "short") THEN Len(asString(StrV(val.short))) + 3 ELSE 0)
           off == (IF isMember(val, "long_off") THEN Len(asString(StrV(val.long_off))) + 4 ELSE 0)
                  + (IF isMember(val, "short_off")
                     THEN Len(asString(StrV(val.short_off))) + 3 ELSE 0)
           l1 == largerOf(off, largerOf(on, longest))
           l2 == IF isMember(val, "arg_num") THEN largerOf(Len(Head(ms)) + 3, l1) ELSE l1
       IN  helpLongest(v, Tail(ms), l2)

\* the first forEachMember of printHelp: args, from arg_num to the name of
\* the last member that declares it
RECURSIVE helpArgs(_, _, _)
helpArgs(v, ms, args) ==
  IF ms = <<>> THEN args
  ELSE LET val == v[Head(ms)]
       IN  helpArgs(v, Tail(ms),
                    IF isMember(val, "arg_num")
                    THEN [k \in DOMAIN args \cup {val.arg_num} |->
                            IF k = val.arg_num THEN Head(ms) ELSE args[k]]
                    ELSE args)

\* the usage line after "[options]": the positional names from key k on,
\* in brackets when the entry has a value
RECURSIVE helpUsage(_, _, _)
helpUsage(v, args, k) ==
  IF \A j \in DOMAIN args : j < k THEN ""
  ELSE IF k \notin DOMAIN args THEN helpUsage(v, args, k + 1)
       ELSE (IF HasValue(v[args[k]]) THEN " [" \o args[k] \o "]" ELSE " " \o args[k])
              \o helpUsage(v, args, k + 1)

\* while (f.size() < longest) f.append(" ") with the loop left out
padToMutant(f, longest) == f

\* while (f.size() < longest) f.append(" ")
RECURSIVE padTo(_, _)
padTo(f, longest) == IF Len(f) < longest THEN padTo(f \o " ", longest) ELSE f

\* the text of a flag variant: "--long, -s", "--long" or "-s"
flagText(val, long, short) ==
  IF isMember(val, long) /\ isMember(val, short)
  THEN "--" \o asString(StrV(val[long])) \o ", -" \o asString(StrV(val[short]))
  ELSE IF isMember(val, short) THEN "-" \o asString(StrV(val[short]))
       ELSE "--" \o asString(StrV(val[long]))

\* the absent member reads as the empty string
memberText(val, m) == IF isMember(val, m) THEN asString(StrV(val[m])) ELSE ""

\* one line of the help text
helpLine(kind, f, longest, val, withArg) ==
  [kind |-> kind, f |-> f, head |-> padTo(f, longest),
   descr |-> IF withArg THEN "(" \o memberText(val, "arg") \o ") " \o memberText(val, "help")
             ELSE memberText(val, "help")]

\* the second forEachMember of printHelp: the lines of each member
RECURSIVE helpLines(_, _, _)
helpLines(v, ms, longest) ==
  IF ms = <<>> THEN <<>>
  ELSE LET val == v[Head(ms)]
           on == IF isMember(val, "long") \/ isMember(val, "short")
                 THEN <<helpLine("flag", flagText(val, "long", "short"), longest, val,
                                 isMember(val, "arg"))>>
                 ELSE <<>>
           off == IF isMember(val, "long_off") \/ isMember(val, "short_off")
                  THEN <<helpLine("flag", flagText(val, "long_off", "short_off"), longest,
                                  val, isMember(val, "arg"))>>
                  ELSE <<>>
           pos == IF isMember(val, "arg_num")
                  THEN <<helpLine("positional", Head(ms), longest, val, TRUE)>>
                  ELSE <<>>
       IN  on \o off \o pos \o helpLines(v, Tail(ms), longest)

\* printHelp(output) on the registry v: getString("cmd") ends the process
\* when "cmd" is not registered
printHelp(v) ==
  LET ms == Members(v)
      longest == helpLongest(v, ms, 0)
      args == helpArgs(v, ms, <<>>)
  IN  IF ~isMember(v, "cmd")
      THEN [exit |-> 37, vals |-> v, out |-> <<"fatal">>]
      ELSE [exit |-> -1, vals |-> getOptionVals(v, "cmd"),
            out |-> <<[kind |-> "usage", f |-> "", head |-> "",
                       descr |-> "Usage: " \o asString(getOptionRet(v, "cmd", FALSE))
                                 \o " [options]" \o helpUsage(v, args, 1)]>>
                    \o helpLines(v, ms, longest)]

\* the options a schema of the help text is made of
OptInterfaceArg == [arg_num |-> 2, arg |-> "string", help |-> "interface"]
OptSocket == [arg |-> "string", help |-> "socket", value |-> <<StrV("s")>>]

HelpPool ==
  { <<"count", OptCount>>, <<"count", OptCountPreset>>, <<"listen_interface", OptInterfaceArg>>,
    <<"file", OptFileFlag>>, <<"daemonize", OptDaemonize>>, <<"json", OptJson>>,
    <<"socket", OptSocket>> }

\* the registry after the addOption calls of the set adds, on the base
RECURSIVE addAll(_, _)
addAll(base, calls) ==
  IF calls = {} THEN base
  ELSE LET c == CHOOSE c \in calls : TRUE
       IN  addAll(addOptionVals(base, c[1], c[2]), calls \ {c})

\* a Config of either constructor with some options added, no two under
\* one name
InitHelp ==
  /\ \E base \in {NamedConfigVals, DefaultConfigVals} :
       \E calls \in SUBSET HelpPool :
         /\ \A c, d \in calls : c[1] = d[1] => c = d
         /\ vals = addAll(base, calls)
         /\ long_count = addOptionCount(vals, 0)
  /\ printDebugLevel = W(DebugDefault)
  /\ status = "running"
  /\ exitCode = -1
  /\ output = <<>>
  /\ call = [op |-> "Config", before |-> vals]
  /\ retval = [none |-> TRUE]
  /\ adds = 0
  /\ parsed = FALSE
  /\ ServerIdle
  /\ ReapIdle
  /\ CodecIdle

\* Util::Config::printHelp(output)
PrintHelp ==
  /\ status = "running"
  /\ call.op = "Config"
  /\ LET r == printHelp(vals)
     IN  /\ vals' = r.vals
         /\ output' = r.out
         /\ IF r.exit # -1
            THEN status' = "exited" /\ exitCode' = r.exit
            ELSE UNCHANGED <<status, exitCode>>
  /\ call' = [op |-> "printHelp", before |-> vals]
  /\ UNCHANGED <<long_count, printDebugLevel, retval, adds, parsed>>
  /\ UNCHANGED serverVars
  /\ UNCHANGED codecVars
  /\ UNCHANGED reapVars

NextHelp == PrintHelp

SpecHelp == InitHelp /\ [][NextHelp]_vars

(***************************************************************************)
(* The claims about the codec.                                             *)
(***************************************************************************)
\* C1: decoding the encoding of a sequence of non-negative integers gives
\* the sequence back, at the 2-byte and at the 4-byte width.
CodecRoundTrip == phase = "decoded" => dec = seq

\* n chunks, each the bytes of chunk
RECURSIVE Repeat(_, _)
Repeat(chunk, n) == IF n = 0 THEN <<>> ELSE chunk \o Repeat(chunk, n - 1)

\* the quotient and the remainder of the wide number v by 0xFFFF:
\* h * 65536 + l = h * 65535 + (h + l)
DivMod2(v) ==
  [q |-> v[1] + ((v[1] + v[2]) \div Max2), r |-> (v[1] + v[2]) % Max2]

\* the quotient and the remainder of the wide number v, below 2^34, by
\* 0xFFFFFFFF: H * 2^32 + L = H * 0xFFFFFFFF + (H + L)
DivMod4(v) ==
  LET H == v[1] \div 65536
      l == v[2] + H
      sum == <<(v[1] % 65536) + (l \div 65536), l % 65536>>
  IN  IF WGe(sum, Max4) THEN [q |-> H + 1, r |-> WSub(sum, Max4)]
      ELSE [q |-> H, r |-> sum]

\* the chunks the claim gives one element at the width w
ExpectedElem(v, w) ==
  IF w = 2
  THEN Repeat(<<255, 255>>, DivMod2(v).q)
         \o <<DivMod2(v).r \div 256, DivMod2(v).r % 256>>
  ELSE Repeat(<<255, 255, 255, 255>>, DivMod4(v).q)
         \o <<DivMod4(v).r[1] \div 256, DivMod4(v).r[1] % 256,
              DivMod4(v).r[2] \div 256, DivMod4(v).r[2] % 256>>

RECURSIVE ExpectedEnc(_, _)
ExpectedEnc(s, w) ==
  IF s = <<>> THEN <<>> ELSE ExpectedElem(Head(s), w) \o ExpectedEnc(Tail(s), w)

\* C15: the encoders emit, for each element v in order, floor(v / max)
\* chunks of FF bytes and then one big-endian chunk holding v mod max, with
\* max 0xFFFF at the 2-byte and 0xFFFFFFFF at the 4-byte width; at the
\* 2-byte width [65535] gives FF FF 00 00 and [0, 10] gives 00 00 00 0A.
EncodeFormat ==
  phase \in {"encoded", "decoded"} =>
    /\ enc = ExpectedEnc(seq, width)
    /\ (width = 2 /\ seq = <<W(65535)>>) => enc = <<255, 255, 0, 0>>
    /\ (width = 2 /\ seq = <<W(0), W(10)>>) => enc = <<0, 0, 0, 10>>

\* an element above the 2-byte maximum was encoded, followed by a second
EncodeFormatWitness ==
  /\ phase = "encoded"
  /\ width = 2
  /\ seq = <<W(Max2 + 1), W(10)>>
  /\ enc = <<255, 255, 0, 1, 0, 10>>

\* the longest prefix of the byte string input made of whole chunks of
\* width w
WholeChunks(input, w) == SubSeq(input, 1, Len(input) - (Len(input) % w))

\* the decoding of the byte string input at width w
Decoded(input, w, signed) ==
  IF w = 2 THEN decodeVector(input, signed) ELSE decodeVector4(input, signed, 0)

\* C21 as stated: the decoders are total over all byte strings; a trailing
\* partial chunk is dropped, so the result is the decoding of the longest
\* prefix of whole chunks, no byte behind the end of the input is read, and
\* a trailing run of maximum chunks without a closing chunk yields no
\* element.
DecodeDropsPartialChunk ==
  phase = "decoded" =>
    /\ status = "running"
    /\ ~readsBehind(enc, width)
    /\ dec = Decoded(WholeChunks(enc, width), width, charSigned)
    /\ (enc # <<>> /\ \A i \in 1..Len(WholeChunks(enc, width)) : enc[i] = 255)
         => dec = <<>>

\* what holds of it: on a byte string made of whole chunks the decoders
\* read nothing behind the end and return, and where plain char is unsigned
\* a string of maximum chunks alone yields no element
DecodeWholeChunks ==
  (phase = "decoded" /\ Len(enc) % width = 0) =>
    /\ status = "running"
    /\ ~readsBehind(enc, width)
    /\ (~charSigned /\ \A i \in 1..Len(enc) : enc[i] = 255) => dec = <<>>

\* a string of one whole maximum chunk of the 4-byte width was decoded
\* where plain char is unsigned
DecodeWholeChunksReached ==
  /\ phase = "decoded"
  /\ width = 4
  /\ ~charSigned
  /\ enc = <<255, 255, 255, 255>>
  /\ dec = <<>>

(***************************************************************************)
(* The claims about the registry.                                          *)
(***************************************************************************)
\* C2: getOption, getString, getInteger or getBool called with a name that
\* is not registered ends the process with exit code 37 and leaves the
\* registry as it was: the name is not registered by the call and no value
\* list changes.
GetUnregisteredExits37 ==
  (call.op \in Accessors /\ ~isMember(call.before, call.name))
    => (status = "exited" /\ exitCode = 37 /\ vals = call.before)

\* a typed accessor met an unregistered name after options were added and
\* the command line parsed
GetUnregisteredWitness ==
  /\ call.op = "getInteger"
  /\ call.name = "nonexistent"
  /\ adds > 0
  /\ parsed
  /\ exitCode = 37

\* the highest arg_num among the entries of v without a preset value
NeededArgs(v) ==
  LET S == {v[n].arg_num : n \in {m \in DOMAIN v : isMember(v[m], "arg_num") /\ ~HasValue(v[m])}}
  IN  IF S = {} THEN 0 ELSE CHOOSE a \in S : \A b \in S : b <= a

\* the schema of the scenario: one option "count" of positional index 1
CountSchema == addOptionVals(NamedConfigVals, "count", OptCount)

\* C3: when parseArgs returns, it returns false exactly when fewer bare
\* tokens were given than the highest positional index among the entries
\* without a preset value; a command line of bare tokens never ends the
\* process; with the one entry "count", "42" gives true and
\* getString("count") = "42", and no token gives false.
ParseArgsFalseIffTooFew ==
  /\ (call.op = "parseArgs" /\ status = "running")
       => retval = [b |-> call.npos >= NeededArgs(call.before)]
  /\ (call.op = "parseArgs" /\ status # "killed"
        /\ \A i \in 1..Len(call.toks) : call.toks[i].k = "word")
       => (status = "running" /\ call.npos = Len(call.toks))
  /\ (call.op = "parseArgs" /\ call.before = CountSchema /\ call.toks = <<Word("42")>>)
       => (status = "running" /\ retval = [b |-> TRUE]
             /\ getOption(vals, "count", FALSE, "getString").ret = StrV("42"))
  /\ (call.op = "parseArgs" /\ call.before = CountSchema /\ call.toks = <<>>)
       => (status = "running" /\ retval = [b |-> FALSE])

\* parseArgs returned false: one token short of two positional arguments
ParseArgsFalseWitness ==
  /\ call.op = "parseArgs"
  /\ status = "running"
  /\ retval = [b |-> FALSE]
  /\ call.npos = 1
  /\ NeededArgs(call.before) = 2

\* the number of options with a "long" member plus the number with a
\* "long_off" member
LongFlags(v) ==
  Cardinality({n \in DOMAIN v : isMember(v[n], "long")})
    + Cardinality({n \in DOMAIN v : isMember(v[n], "long_off")})

\* C4: after a constructor and any sequence of addOption calls, the empty
\* one too, long_count is the number of options with a "long" member plus
\* the number with a "long_off" member.
LongCountMatches ==
  call.op \in {"Config", "addOption"} => long_count = LongFlags(vals)

\* the part of it that the code keeps: the equality holds after every
\* addOption call, also one that overwrites an entry
LongCountMatchesAfterAdd ==
  call.op = "addOption" => long_count = LongFlags(vals)

\* whether the token at i is an occurrence of the debug flag: -g or
\* --debug, not itself taken as the argument of the flag before it
IsDebugFlag(toks, i) ==
  /\ toks[i] \in {Short("g"), Long("debug")}
  /\ i > 1 => toks[i - 1] \notin {Short("g"), Short("f"), Long("debug"), Long("file")}

\* the integer the command line toks gives the debug option: the argument
\* of the last occurrence of its flag, the configured default dflt when the
\* flag does not occur
DebugArg(toks, dflt) ==
  LET S == {i \in 1..(Len(toks) - 1) : IsDebugFlag(toks, i)}
  IN  IF S = {} THEN dflt
      ELSE asInt(StrV(TokText(toks[(CHOOSE i \in S : \A j \in S : j <= i) + 1])))

\* the configured default of the debug option in the registry v
DebugConfigured(v) == asInt(v["debug"].value[Len(v["debug"].value)])

\* C11: a parseArgs that returned true leaves the debug level equal to
\* getInteger("debug"), which is the argument of the last -g or --debug of
\* the command line, or the configured default when there is none.
DebugLevelIsGetInteger ==
  (call.op = "parseArgs" /\ status = "running" /\ retval = [b |-> TRUE])
    => LET n == getOption(vals, "debug", FALSE, "getInteger").ret.i
       IN  /\ n = DebugArg(call.toks, DebugConfigured(call.before))
           /\ n >= 0
           /\ printDebugLevel = W(n)

\* the part of it that the code keeps: getInteger("debug") is that argument
\* or default, and the debug level is its conversion to unsigned int, equal
\* to it when it is not negative
DebugLevelIsConverted ==
  (call.op = "parseArgs" /\ status = "running" /\ retval = [b |-> TRUE])
    => LET n == getOption(vals, "debug", FALSE, "getInteger").ret.i
       IN  /\ n = DebugArg(call.toks, DebugConfigured(call.before))
           /\ printDebugLevel = ToU32(0, n)
           /\ (call.toks = <<Short("g"), Word("5")>>) => (n = 5 /\ printDebugLevel = W(5))

\* the flags of the entry o, as tokens of a command line
FlagTokens(o) ==
  {Short(o[f]) : f \in {"short", "short_off"} \cap DOMAIN o}
    \cup {Long(o[f]) : f \in {"long", "long_off"} \cap DOMAIN o}

\* a toggle pair: an entry with an on flag and an off flag
IsToggle(o) ==
  /\ isMember(o, "short") \/ isMember(o, "long")
  /\ isMember(o, "short_off") \/ isMember(o, "long_off")

\* C12: parseArgs leaves the value list of a toggle pair as it was when
\* none of its flags is on the command line, whatever else is parsed.
ToggleKeptWithoutItsFlags ==
  call.op = "parseArgs" =>
    \A n \in DOMAIN call.before :
      (/\ IsToggle(call.before[n])
       /\ \A i \in 1..Len(call.toks) : call.toks[i] \notin FlagTokens(call.before[n]))
        => (isMember(vals, n) /\ vals[n] = call.before[n])

\* a command line with another flag and a bare token was parsed while the
\* toggle pair "daemonize" was registered, and both were stored
ToggleKeptWitness ==
  /\ call.op = "parseArgs"
  /\ call.toks = <<Short("g"), Word("5"), Word("42")>>
  /\ isMember(call.before, "daemonize")
  /\ IsToggle(call.before["daemonize"])
  /\ isMember(call.before, "count")
  /\ retval = [b |-> TRUE]
  /\ vals["count"] # call.before["count"]
  /\ vals["debug"] # call.before["debug"]

\* the index of the first token of toks that is no bare token, 0 when
\* there is none
FirstFlag(toks) ==
  LET S == {i \in 1..Len(toks) : toks[i].k # "word"}
  IN  IF S = {} THEN 0 ELSE CHOOSE i \in S : \A j \in S : i <= j

\* whether the flag token t is one that no entry of the registry v has
Unrecognized(v, t) == \A n \in DOMAIN v : t \notin FlagTokens(v[n])

\* what the claim has parseArgs do when the first flag of the command line
\* is unknown or the help flag (help, then the version banner, exit 1) or
\* the version flag (the banner, exit 1): nothing else is stored
StopsAtFirstFlag ==
  LET f == FirstFlag(call.toks)
      t == call.toks[f]
  IN  /\ (f > 0 /\ (Unrecognized(call.before, t) \/ t \in {Short("h"), Long("help")}))
           => /\ status = "exited" /\ exitCode = 1
              /\ output = <<"help", "libversion", "appversion">>
              /\ vals = call.before
      /\ (f > 0 /\ ~Unrecognized(call.before, t) /\ t \in {Short("v"), Long("version")})
           => /\ status = "exited" /\ exitCode = 1
              /\ output = <<"libversion", "appversion">>
              /\ vals = call.before

\* C13: in parseArgs the first unknown option or help flag prints the help
\* text, then the version banner, and ends the process with status 1; the
\* first version flag prints the banner only and ends it with status 1; no
\* later flag or bare token is stored.
HelpVersionExit ==
  (call.op = "parseArgs" /\ status # "killed") => StopsAtFirstFlag

\* the part of it that the code keeps: the same on a Config made by
\* Config(cmd, version), where "cmd" and "version" are registered
HelpVersionExitNamed ==
  (call.op = "parseArgs" /\ status # "killed"
     /\ isMember(call.before, "cmd") /\ isMember(call.before, "version"))
    => StopsAtFirstFlag

\* the lines of the help text that are for a flag variant or a positional
\* argument
HelpLines == {i \in 1..Len(output) : output[i].kind \in {"flag", "positional"}}

\* the largest number of the non-empty set S
MaxOf(S) == CHOOSE a \in S : \A b \in S : b <= a

\* the margin of the help text of Config(cmd, version) with nothing added:
\* the column of its descriptions less its longest flag text
HelpMargin ==
  LET ls == printHelp(NamedConfigVals).out
      I == {i \in 1..Len(ls) : ls[i].kind = "flag"}
  IN  Len(ls[CHOOSE i \in I : TRUE].head) - MaxOf({Len(ls[i].f) : i \in I})

\* C14 as stated: every line of the help text starts its description at the
\* same column, which is the length of the longest flag text or positional
\* name plus one margin that is the same for every schema.
HelpColumnFixedMargin ==
  (call.op = "printHelp" /\ status = "running" /\ HelpLines # {})
    => \A i \in HelpLines :
         Len(output[i].head) = MaxOf({Len(output[j].f) : j \in HelpLines}) + HelpMargin

\* C14 as amended: every line of the help text starts its description at the
\* same column, which is the largest of the lengths of the flag texts plus
\* 2 and of the positional names plus 3.
HelpColumnAligned ==
  (call.op = "printHelp" /\ status = "running" /\ HelpLines # {})
    => \A i \in HelpLines :
         Len(output[i].head) =
           MaxOf({Len(output[j].f) + (IF output[j].kind = "flag" THEN 2 ELSE 3) :
                    j \in HelpLines})

\* a help text with flag lines and positional lines whose column a
\* positional name decides
HelpColumnWitness ==
  /\ call.op = "printHelp"
  /\ status = "running"
  /\ \E i, j \in HelpLines :
       /\ output[i].kind = "flag"
       /\ output[j].kind = "positional"
       /\ Len(output[i].f) < Len(output[i].head) - 2
       /\ Len(output[j].f) = Len(output[j].head) - 3

\* the value list of the entry o, empty when it has none
ValueList(o) == IF isMember(o, "value") THEN o.value ELSE <<>>

\* the entries of v that declare a positional index and have no flag
Positionals(v) ==
  {n \in DOMAIN v : isMember(v[n], "arg_num") /\ FlagTokens(v[n]) = {}}

\* the place of the entry n among the entries of v that declare a
\* positional index and have no preset value, in the order of the index
RankWithoutPreset(v, n) ==
  1 + Cardinality({m \in Positionals(v) : ~HasValue(v[m]) /\ v[m].arg_num < v[n].arg_num})

\* C19 as stated: the k-th bare token goes to the k-th entry, in the order
\* of the positional index, among those that declare one and have no
\* preset value; an entry with a preset value is given no token.
PositionalOnlyWithoutPreset ==
  (call.op = "parseArgs" /\ status = "running") =>
    \A n \in Positionals(call.before) :
      LET o == call.before[n]
          k == RankWithoutPreset(call.before, n)
      IN  ValueList(vals[n]) =
            IF ~HasValue(o) /\ k <= call.npos THEN <<StrV(call.pos[k])>>
            ELSE ValueList(o)

\* C19 as amended: the k-th bare token is appended to the value list of the
\* first entry in registry order whose positional index is k, with or
\* without a preset value; the other entries are given no token.
PositionalByIndex ==
  (call.op = "parseArgs" /\ status = "running") =>
    \A n \in Positionals(call.before) :
      LET o == call.before[n]
          first == \A m \in Positionals(call.before) :
                     (m # n /\ call.before[m].arg_num = o.arg_num)
                       => firstIndex(NameOrder, n) < firstIndex(NameOrder, m)
      IN  ValueList(vals[n]) =
            IF first /\ o.arg_num \in 1..call.npos
            THEN Append(ValueList(o), StrV(call.pos[o.arg_num]))
            ELSE ValueList(o)

\* two bare tokens were parsed where the first positional entry had a
\* preset value and the second had none: each got its token
PositionalWitness ==
  /\ call.op = "parseArgs"
  /\ status = "running"
  /\ call.pos = <<"42", "x">>
  /\ isMember(call.before, "count") /\ isMember(call.before, "file")
  /\ call.before["count"] = OptCountPreset
  /\ vals["count"].value = <<StrV("7"), StrV("42")>>
  /\ vals["file"].value = <<StrV("x")>>

\* the flag occurrences getopt_long reports from token i on, up to the
\* first one that ends the parse: the token, the character returned, optarg
RECURSIVE flagOccurrences(_, _, _, _)
flagOccurrences(toks, i, so, lo) ==
  IF i > Len(toks) THEN <<>>
  ELSE IF toks[i].k = "word" THEN flagOccurrences(toks, i + 1, so, lo)
       ELSE LET g == getoptNext(toks, i, so, lo)
            IN  IF g.opt \in {"h", "?", "v"} THEN <<>>
                ELSE <<[tok |-> toks[i], opt |-> g.opt, optarg |-> g.optarg]>>
                       \o flagOccurrences(toks, g.next, so, lo)

\* the flag occurrences of the command line toks under the registry v
Occurrences(v, toks) ==
  flagOccurrences(toks, 1, buildShort(v, Members(v)), buildLong(v, Members(v)))

\* the entries of v whose short flag or short off-flag is the character c
Matches(v, c) ==
  {n \in DOMAIN v : \/ isMember(v[n], "short") /\ v[n].short = c
                    \/ isMember(v[n], "short_off") /\ v[n].short_off = c}

\* the first of them in registry order
FirstMatch(v, c) ==
  CHOOSE n \in Matches(v, c) :
    \A m \in Matches(v, c) : firstIndex(NameOrder, n) <= firstIndex(NameOrder, m)

\* the value the entry o is given for the character c: the argument text
\* or 1 on its on flag, 0 on its off flag
MatchedValue(o, c, optarg) ==
  IF isMember(o, "short") /\ o.short = c
  THEN (IF isMember(o, "arg") THEN StrV(optarg) ELSE IntV(1))
  ELSE IntV(0)

\* the registry after each occurrence of occs gave one value to the first
\* entry that matches its character; an occurrence no entry matches gives
\* nothing
RECURSIVE FlagsApplied(_, _)
FlagsApplied(v, occs) ==
  IF occs = <<>> THEN v
  ELSE LET c == Head(occs).opt
       IN  IF Matches(v, c) = {} THEN FlagsApplied(v, Tail(occs))
           ELSE LET n == FirstMatch(v, c)
                IN  FlagsApplied(
                      [v EXCEPT ![n] = appendValue(v[n], MatchedValue(v[n], c, Head(occs).optarg))],
                      Tail(occs))

\* the entries of v that have a flag
Flagged(v) == {n \in DOMAIN v : FlagTokens(v[n]) # {}}

\* C20 as stated: every flag occurrence that is recognized, other than help
\* and version, appends exactly one value to exactly one entry, the first
\* in registry order whose short flag or short off-flag is the matched
\* character (the argument text, 1, or 0 on the off flag), and changes no
\* other entry.
FlagAppendsToFirstMatch ==
  (call.op = "parseArgs" /\ status # "killed") =>
    LET occs == Occurrences(call.before, call.toks)
        exp == FlagsApplied(call.before, occs)
    IN  /\ \A i \in 1..Len(occs) : Matches(call.before, occs[i].opt) # {}
        /\ \A n \in Flagged(call.before) : ValueList(vals[n]) = ValueList(exp[n])

\* what holds of it: an occurrence whose character some entry has appends
\* one value to the first such entry, and an occurrence whose character no
\* entry has appends nothing
FlagAppendsWhenMatched ==
  (call.op = "parseArgs" /\ status # "killed") =>
    LET occs == Occurrences(call.before, call.toks)
        exp == FlagsApplied(call.before, occs)
    IN  \A n \in Flagged(call.before) : ValueList(vals[n]) = ValueList(exp[n])

\* a flag whose character two entries share was parsed: the first entry in
\* registry order got the value, the later one kept its list
SharedFlagParsed ==
  /\ call.op = "parseArgs"
  /\ call.toks = <<Short("f"), Word("x"), Word("42")>>
  /\ isMember(call.before, "count") /\ isMember(call.before, "file")
  /\ Matches(call.before, "f") = {"count", "file"}
  /\ vals["count"].value = <<IntV(1)>>
  /\ vals["file"] = call.before["file"]

\* a call of getOption or of a typed accessor on a registered name returned
Got ==
  /\ call.op \in Accessors
  /\ status = "running"
  /\ isMember(call.before, call.name)

\* C22 as stated: getOption on a registered option without a value yet
\* (the list absent or empty) inserts exactly one empty placeholder, and no
\* further one on a repeated call; the scalar form returns an existing
\* element, the last of the list, and the array form the whole list.
GetInsertsOnePlaceholder ==
  Got =>
    LET old == call.before[call.name]
        list == ValueList(vals[call.name])
    IN  /\ vals = IF ValueList(old) = <<>>
                  THEN [call.before EXCEPT ![call.name] =
                          [f \in DOMAIN old \cup {"value"} |->
                             IF f = "value" THEN <<NullV>> ELSE old[f]]]
                  ELSE call.before
        /\ (call.op = "getOption" /\ ~call.asArray)
             => (Len(list) > 0 /\ retval = list[Len(list)])
        /\ (call.op = "getOption" /\ call.asArray) => retval = [list |-> list]

\* what holds of it: the placeholder is inserted when the list is absent,
\* and an empty list is left empty, the scalar form then returning no
\* element of it
GetInsertsWhenAbsent ==
  Got =>
    LET old == call.before[call.name]
        list == ValueList(vals[call.name])
    IN  /\ vals = IF ~isMember(old, "value")
                  THEN [call.before EXCEPT ![call.name] = appendValue(old, NullV)]
                  ELSE call.before
        /\ (call.op = "getOption" /\ ~call.asArray)
             => retval = IF Len(list) > 0 THEN list[Len(list)] ELSE [none |-> TRUE]
        /\ (call.op = "getOption" /\ call.asArray) => retval = [list |-> list]

\* getOption was called a second time on an entry registered without a
\* value list: the list holds the one placeholder of the first call
GetTwiceReached ==
  /\ Got
  /\ call.op = "getOption"
  /\ call.name = "count"
  /\ ValueList(call.before["count"]) = <<NullV>>
  /\ vals["count"].value = <<NullV>>
  /\ retval = NullV

\* the number of entries parseArgs writes to longOpts for the registry v
LongWritten(v) == Len(buildLong(v, Members(v)))

\* C25: whenever parseArgs builds the long-option table, after either
\* constructor and any sequence of addOption calls, the empty one too, it
\* writes at most long_count entries, so the writes stay inside the
\* long_count + 1 slots and the all-zero entry that ends the table is left
\* after the last one written.
LongTableFits ==
  call.op = "parseArgs" => LongWritten(call.before) <= long_count

\* what holds of it: the table fits once addOption has been called
LongTableFitsAfterAdd ==
  (call.op = "parseArgs" /\ adds > 0) => LongWritten(call.before) <= long_count

\* parseArgs built the table of a registry that addOption gave two long
\* flags more, and left the entry that ends it
LongTableFitsReached ==
  /\ call.op = "parseArgs"
  /\ adds > 0
  /\ isMember(call.before, "daemonize")
  /\ LongWritten(call.before) = long_count
  /\ long_count >= 5

(***************************************************************************)
(* The service: serveThreadedSocket, serveForkedSocket, activate, the      *)
(* signal handler, threadServer, forkServer and callThreadCallback.        *)
(*                                                                         *)
(* The main thread moves through pc: "idle" (no call made yet), the steps  *)
(* of activate ("act_user" .. "act_set", "act_ret"), the dispatch loop     *)
(* ("loop", "accept", "close") and "returned".  Signals arrive between any *)
(* two steps.  A connection is a record: its owner is the worker thread    *)
(* ("thread"), the forked child ("child") or, when fork() failed, nobody   *)
(* ("none").                                                               *)
(***************************************************************************)
Signals == {"SIGINT", "SIGHUP", "SIGTERM", "SIGPIPE", "SIGCHLD"}

ServeOps == {"serveThreadedSocket", "serveForkedSocket"}

DispatchOps == {"threadServer", "forkServer"}

\* the values a connection handler returns: success and an error
HandlerResults == {0, 1}

\* Config::addBasicConnectorOptions, with or without a "socket" capability
addBasicConnectorOptions(v, socketCap) ==
  LET v1 == addOptionVals(v, "username",
              [long |-> "username", short |-> "u", arg |-> "string",
               help |-> "username", value |-> <<StrV("root")>>])
      v2 == IF socketCap
            THEN addOptionVals(v1, "socket",
                   [arg |-> "string", help |-> "socket", value |-> <<StrV("sock")>>])
            ELSE v1
      v3 == addOptionVals(v2, "daemonize", OptDaemonize)
  IN  addOptionVals(v3, "json",
        [long |-> "json", short |-> "j", help |-> "json", value |-> <<IntV(0)>>])

\* Config::addConnectorOptions
addConnectorOptions(v, socketCap) ==
  LET v1 == addOptionVals(v, "listen_port",
              [long |-> "port", short |-> "p", arg |-> "integer",
               help |-> "port", value |-> <<IntV(42)>>])
      v2 == addOptionVals(v1, "listen_interface",
              [long |-> "interface", short |-> "i", arg |-> "string",
               help |-> "interface", value |-> <<StrV("0.0.0.0")>>])
  IN  addBasicConnectorOptions(v2, socketCap)

\* the registries a service is started with: no listener option at all, the
\* connector options without and with a local socket, the basic options
\* with a local socket, the connector options after "-d" was parsed, and
\* the connector options on a default-constructed Config
ServerConfigs ==
  { NamedConfigVals,
    addConnectorOptions(NamedConfigVals, FALSE),
    addConnectorOptions(NamedConfigVals, TRUE),
    addBasicConnectorOptions(NamedConfigVals, TRUE),
    LET v == addConnectorOptions(NamedConfigVals, FALSE)
    IN  applyFlag(v, Members(v), "d", ""),
    addConnectorOptions(DefaultConfigVals, FALSE) }

InitServer ==
  /\ vals \in ServerConfigs
  /\ long_count = addOptionCount(vals, 0)
  /\ printDebugLevel = W(DebugDefault)
  /\ status = "running"
  /\ exitCode = -1
  /\ output = <<>>
  /\ call = [op |-> "Config", before |-> vals]
  /\ retval = [none |-> TRUE]
  /\ adds = 0
  /\ parsed = TRUE
  /\ is_active = FALSE
  /\ sigDisp \in {[sig \in Signals |-> IF sig \in {"SIGCHLD", "SIGPIPE"} THEN d ELSE "SIG_DFL"] :
                    d \in {"SIG_DFL", "SIG_IGN", "custom"}}
  /\ signalled = FALSE
  /\ pc = "idle"
  /\ entry = "none"
  /\ activated = FALSE
  /\ listener = [kind |-> "none", connected |-> FALSE, closed |-> FALSE]
  /\ entryActive = "unset"
  /\ acceptCalled = FALSE
  /\ conns = <<>>
  /\ ReapIdle
  /\ CodecIdle

\* the listener serveThreadedSocket and serveForkedSocket resolve: the kind
\* of the Socket::Server last assigned to server_socket
resolveKind(v) ==
  IF isMember(v, "listen_port") /\ isMember(v, "listen_interface") THEN "tcp"
  ELSE IF isMember(v, "socket") THEN "unix"
  ELSE "none"

\* vals after the accessor calls of the listener resolution
resolveVals(v) ==
  LET v1 == IF isMember(v, "socket") THEN getOptionVals(v, "socket") ELSE v
  IN  IF isMember(v1, "listen_port") /\ isMember(v1, "listen_interface")
      THEN getOptionVals(getOptionVals(v1, "listen_port"), "listen_interface")
      ELSE v1

\* where serve*Socket goes on after the resolution: back to its caller, or
\* into activate()
serveNextMutant(connected) == "act_user"

serveNext(connected) == IF ~connected THEN "returned" ELSE "act_user"

\* Util::Config::serveThreadedSocket and serveForkedSocket, up to the call
\* of activate().  `bound' is whether the Socket::Server could be opened,
\* `logged' whether the debug message is evaluated at this debug level.
Serve(op, bound, logged) ==
  /\ status = "running"
  /\ pc = "idle"
  /\ ~activated
  /\ LET kind == resolveKind(vals)
         connected == kind # "none" /\ bound
         v1 == resolveVals(vals)
         next == serveNext(connected)
     IN  /\ entry' = op
         /\ listener' = [kind |-> kind, connected |-> connected, closed |-> FALSE]
         /\ call' = [op |-> op, before |-> vals, sig |-> sigDisp, active |-> is_active,
                     connected |-> connected]
         /\ IF next = "returned"
            THEN /\ retval' = IntV(1)
                 /\ pc' = "returned"
                 /\ vals' = v1
                 /\ UNCHANGED <<status, exitCode, output, activated>>
            ELSE IF logged /\ ~isMember(v1, "cmd")
                 THEN /\ status' = "exited"
                      /\ exitCode' = 37
                      /\ output' = Append(output, "fatal")
                      /\ vals' = v1
                      /\ UNCHANGED <<retval, pc, activated>>
                 ELSE /\ vals' = IF logged THEN getOptionVals(v1, "cmd") ELSE v1
                      /\ pc' = next
                      /\ activated' = TRUE
                      /\ UNCHANGED <<status, exitCode, output, retval>>
  /\ UNCHANGED <<long_count, printDebugLevel, adds, parsed>>
  /\ UNCHANGED <<is_active, sigDisp, signalled, entryActive, acceptCalled, conns>>
  /\ UNCHANGED codecVars
  /\ UNCHANGED reapVars

\* a call of activate() by the program itself
CallActivate ==
  /\ status = "running"
  /\ pc = "idle"
  /\ ~activated
  /\ entry' = "activate"
  /\ activated' = TRUE
  /\ pc' = "act_user"
  /\ call' = [op |-> "activate", before |-> vals, sig |-> sigDisp, active |-> is_active,
              connected |-> FALSE]
  /\ UNCHANGED <<vals, long_count, printDebugLevel, status, exitCode, output, retval,
                 adds, parsed>>
  /\ UNCHANGED <<is_active, sigDisp, signalled, listener, entryActive, acceptCalled, conns>>
  /\ UNCHANGED codecVars
  /\ UNCHANGED reapVars

\* activate(): setUser(getString("username")) and the removal of the option
ActivateUser ==
  /\ status = "running"
  /\ pc = "act_user"
  /\ vals' = IF isMember(vals, "username") THEN removeMember(vals, "username") ELSE vals
  /\ pc' = "act_daemon"
  /\ UNCHANGED <<long_count, printDebugLevel, status, exitCode, output, call, retval,
                 adds, parsed>>
  /\ UNCHANGED <<is_active, sigDisp, signalled, entry, activated, listener, entryActive,
                 acceptCalled, conns>>
  /\ UNCHANGED codecVars
  /\ UNCHANGED reapVars

\* activate(): Daemonize() and the removal of the option, when "daemonize"
\* is registered and true
ActivateDaemonize ==
  /\ status = "running"
  /\ pc = "act_daemon"
  /\ vals' = IF isMember(vals, "daemonize")
             THEN IF asBool(getOptionRet(vals, "daemonize", FALSE))
                  THEN removeMember(
                         IF isMember(vals, "logfile") THEN getOptionVals(vals, "logfile")
                         ELSE vals, "daemonize")
                  ELSE getOptionVals(vals, "daemonize")
             ELSE vals
  /\ pc' = "act_sigint"
  /\ UNCHANGED <<long_count, printDebugLevel, status, exitCode, output, call, retval,
                 adds, parsed>>
  /\ UNCHANGED <<is_active, sigDisp, signalled, entry, activated, listener, entryActive,
                 acceptCalled, conns>>
  /\ UNCHANGED codecVars
  /\ UNCHANGED reapVars

\* activate(): one of the four unconditional sigaction calls
ActivateSigaction(at, sig, next) ==
  /\ status = "running"
  /\ pc = at
  /\ sigDisp' = [sigDisp EXCEPT ![sig] = "signal_handler"]
  /\ pc' = next
  /\ UNCHANGED configVars
  /\ UNCHANGED <<is_active, signalled, entry, activated, listener, entryActive,
                 acceptCalled, conns>>
  /\ UNCHANGED codecVars
  /\ UNCHANGED reapVars

\* the test with the ignore disposition taken for a handler to keep
sigchldUnsetMutant(cur) == cur = "SIG_DFL"

\* activate(): whether the current SIGCHLD handler counts as not set
sigchldUnset(cur) == cur = "SIG_DFL" \/ cur = "SIG_IGN"

\* activate(): the handler for SIGCHLD, installed when the current one is
\* SIG_DFL or SIG_IGN
ActivateSigchld ==
  /\ status = "running"
  /\ pc = "act_sigchld"
  /\ sigDisp' = IF sigchldUnset(sigDisp["SIGCHLD"])
                THEN [sigDisp EXCEPT !["SIGCHLD"] = "signal_handler"]
                ELSE sigDisp
  /\ pc' = "act_set"
  /\ UNCHANGED configVars
  /\ UNCHANGED <<is_active, signalled, entry, activated, listener, entryActive,
                 acceptCalled, conns>>
  /\ UNCHANGED codecVars
  /\ UNCHANGED reapVars

\* activate(): is_active = true, and the return to the caller
ActivateSet ==
  /\ status = "running"
  /\ pc = "act_set"
  /\ is_active' = TRUE
  /\ pc' = IF entry = "activate" THEN "idle" ELSE "act_ret"
  /\ UNCHANGED configVars
  /\ UNCHANGED <<sigDisp, signalled, entry, activated, listener, entryActive,
                 acceptCalled, conns>>
  /\ UNCHANGED codecVars
  /\ UNCHANGED reapVars

\* serve*Socket calls threadServer or forkServer with its listener
EnterLoop ==
  /\ status = "running"
  /\ pc = "act_ret"
  /\ entryActive' = IF is_active THEN "active" ELSE "inactive"
  /\ pc' = "loop"
  /\ UNCHANGED configVars
  /\ UNCHANGED <<is_active, sigDisp, signalled, entry, activated, listener,
                 acceptCalled, conns>>
  /\ UNCHANGED codecVars
  /\ UNCHANGED reapVars

\* a call of threadServer or forkServer by the program itself, on a
\* listener it opened
CallDispatch(op, connected) ==
  /\ status = "running"
  /\ pc = "idle"
  /\ entry \in {"none", "activate"}
  /\ entry' = op
  /\ listener' = [kind |-> "given", connected |-> connected, closed |-> FALSE]
  /\ entryActive' = IF is_active THEN "active" ELSE "inactive"
  /\ pc' = "loop"
  /\ call' = [op |-> op, before |-> vals, sig |-> sigDisp, active |-> is_active,
              connected |-> connected]
  /\ UNCHANGED <<vals, long_count, printDebugLevel, status, exitCode, output, retval,
                 adds, parsed>>
  /\ UNCHANGED <<is_active, sigDisp, signalled, activated, acceptCalled, conns>>
  /\ UNCHANGED codecVars
  /\ UNCHANGED reapVars

\* whether the dispatch runs in threads or in processes
Threaded == entry \in {"serveThreadedSocket", "threadServer"}

\* the condition of the while loop of threadServer and forkServer
loopConditionMutant(active, connected) == connected

loopCondition(active, connected) == active /\ connected

\* the loop condition is evaluated
LoopCheck ==
  /\ status = "running"
  /\ pc = "loop"
  /\ pc' = IF loopCondition(is_active, listener.connected) THEN "accept" ELSE "close"
  /\ UNCHANGED configVars
  /\ UNCHANGED <<is_active, sigDisp, signalled, entry, activated, listener, entryActive,
                 acceptCalled, conns>>
  /\ UNCHANGED codecVars
  /\ UNCHANGED reapVars

\* the connection threadServer hands to a new detached thread
NewThreadConn ==
  [owner |-> "thread", st |-> "started", handlerCalls |-> 0, hret |-> -1,
   closes |-> 0, deletes |-> 0, loopCloses |-> 0, parentDrops |-> 0,
   lsnDrops |-> 0, lsnCloses |-> 0, childAccepts |-> 0, childRet |-> -1]

\* the connection after fork() in forkServer: in the child when fork
\* returned 0 there, and only dropped by the parent when fork failed
NewForkConn(forked) ==
  [owner |-> IF forked THEN "child" ELSE "none", st |-> "started",
   handlerCalls |-> 0, hret |-> -1,
   closes |-> 0, deletes |-> 0, loopCloses |-> 0, parentDrops |-> 1,
   lsnDrops |-> 0, lsnCloses |-> 0, childAccepts |-> 0, childRet |-> -1]

\* where the loop goes after a round of its body if it joined the threads
\* and waited for the children it has started: "join" while one of them
\* has not finished
afterRoundMutant(cs) ==
  IF \E i \in DOMAIN cs : cs[i].owner # "none" /\ cs[i].st \in {"started", "dropped", "handled"}
  THEN "join" ELSE "loop"

\* where the loop goes after a round of its body: the thread is detached
\* and the child is not waited for, so back to the loop test whatever the
\* connections cs handed out so far are doing
afterRound(cs) == "loop"

\* one round of the loop body: accept() gives a connection ("conn"), none
\* ("none"), or fails and leaves the listener disconnected ("fail"); a
\* connection is handed to a thread or to a forked child, anything else is
\* followed by the sleep
Accept(res, forked) ==
  /\ status = "running"
  /\ pc = "accept"
  /\ acceptCalled' = TRUE
  /\ \/ /\ res = "conn"
        /\ Len(conns) < MaxConn
        /\ conns' = Append(conns, IF Threaded THEN NewThreadConn ELSE NewForkConn(forked))
        /\ UNCHANGED listener
     \/ /\ res = "none"
        /\ UNCHANGED <<conns, listener>>
     \/ /\ res = "fail"
        /\ listener' = [listener EXCEPT !.connected = FALSE]
        /\ UNCHANGED conns
  /\ pc' = afterRound(conns')
  /\ UNCHANGED configVars
  /\ UNCHANGED <<is_active, sigDisp, signalled, entry, activated, entryActive>>
  /\ UNCHANGED codecVars
  /\ UNCHANGED reapVars

\* server_socket.close() and return 0
CloseListener ==
  /\ status = "running"
  /\ pc = "close"
  /\ listener' = [listener EXCEPT !.connected = FALSE, !.closed = TRUE]
  /\ retval' = IntV(0)
  /\ pc' = "returned"
  /\ UNCHANGED <<vals, long_count, printDebugLevel, status, exitCode, output, call,
                 adds, parsed>>
  /\ UNCHANGED <<is_active, sigDisp, signalled, entry, activated, entryActive,
                 acceptCalled, conns>>
  /\ UNCHANGED codecVars
  /\ UNCHANGED reapVars

\* callThreadCallback: the handler is called and returns r
WorkerHandler(i, r) ==
  /\ status = "running"
  /\ conns[i].owner = "thread"
  /\ conns[i].st = "started"
  /\ conns' = [conns EXCEPT ![i] = [@ EXCEPT !.handlerCalls = @ + 1, !.hret = r,
                                              !.st = "handled"]]
  /\ UNCHANGED configVars
  /\ UNCHANGED <<is_active, sigDisp, signalled, pc, entry, activated, listener,
                 entryActive, acceptCalled>>
  /\ UNCHANGED codecVars
  /\ UNCHANGED reapVars

\* callThreadCallback after the handler returned: sock->close(), delete sock
releaseMutant(c) ==
  IF c.hret = 0
  THEN [c EXCEPT !.closes = @ + 1, !.deletes = @ + 1, !.st = "done"]
  ELSE [c EXCEPT !.st = "done"]

release(c) == [c EXCEPT !.closes = @ + 1, !.deletes = @ + 1, !.st = "done"]

WorkerRelease(i) ==
  /\ status = "running"
  /\ conns[i].owner = "thread"
  /\ conns[i].st = "handled"
  /\ conns' = [conns EXCEPT ![i] = release(@)]
  /\ UNCHANGED configVars
  /\ UNCHANGED <<is_active, sigDisp, signalled, pc, entry, activated, listener,
                 entryActive, acceptCalled>>
  /\ UNCHANGED codecVars
  /\ UNCHANGED reapVars

\* the child of forkServer: server_socket.drop()
ChildDrop(i) ==
  /\ conns[i].owner = "child"
  /\ conns[i].st = "started"
  /\ conns' = [conns EXCEPT ![i] = [@ EXCEPT !.lsnDrops = @ + 1, !.st = "dropped"]]
  /\ UNCHANGED configVars
  /\ UNCHANGED <<is_active, sigDisp, signalled, pc, entry, activated, listener,
                 entryActive, acceptCalled>>
  /\ UNCHANGED codecVars
  /\ UNCHANGED reapVars

\* the child of forkServer: return callback(S)
ChildHandler(i, r) ==
  /\ conns[i].owner = "child"
  /\ conns[i].st = "dropped"
  /\ conns' = [conns EXCEPT ![i] = [@ EXCEPT !.handlerCalls = @ + 1, !.hret = r,
                                              !.childRet = r, !.st = "returned"]]
  /\ UNCHANGED configVars
  /\ UNCHANGED <<is_active, sigDisp, signalled, pc, entry, activated, listener,
                 entryActive, acceptCalled>>
  /\ UNCHANGED codecVars
  /\ UNCHANGED reapVars

\* a signal handler that takes the broken pipe for a termination signal
signal_handlerMutant(signum) ==
  /\ is_active' = IF signum \in {"SIGINT", "SIGHUP", "SIGTERM", "SIGPIPE"} THEN FALSE
                  ELSE is_active
  /\ signalled' = (signalled \/ signum \in {"SIGINT", "SIGHUP", "SIGTERM"})
  /\ UNCHANGED <<status, conns>>

\* Util::Config::signal_handler(signum): the termination signals clear
\* is_active; the waitpid loop of SIGCHLD and the default branch change
\* none of the variables of this specification
signal_handler(signum) ==
  /\ is_active' = IF signum \in {"SIGINT", "SIGHUP", "SIGTERM"} THEN FALSE ELSE is_active
  /\ signalled' = (signalled \/ signum \in {"SIGINT", "SIGHUP", "SIGTERM"})
  /\ UNCHANGED <<status, conns>>

\* the delivery of a signal to the process: the installed disposition acts
Signal(sig) ==
  /\ status = "running"
  /\ \/ /\ sigDisp[sig] = "signal_handler"
        /\ signal_handler(sig)
     \/ /\ sigDisp[sig] = "SIG_DFL"
        /\ sig # "SIGCHLD"
        /\ status' = "killed"
        /\ UNCHANGED <<is_active, signalled, conns>>
     \/ /\ \/ sigDisp[sig] \in {"SIG_IGN", "custom"}
           \/ sigDisp[sig] = "SIG_DFL" /\ sig = "SIGCHLD"
        /\ UNCHANGED <<status, is_active, signalled, conns>>
  /\ UNCHANGED <<vals, long_count, printDebugLevel, exitCode, output, call, retval,
                 adds, parsed>>
  /\ UNCHANGED <<sigDisp, pc, entry, activated, listener, entryActive, acceptCalled>>
  /\ UNCHANGED codecVars
  /\ UNCHANGED reapVars

\* the steps of the main thread
MainThread ==
  \/ \E op \in ServeOps, bound \in BOOLEAN, logged \in BOOLEAN : Serve(op, bound, logged)
  \/ CallActivate
  \/ ActivateUser
  \/ ActivateDaemonize
  \/ ActivateSigaction("act_sigint", "SIGINT", "act_sighup")
  \/ ActivateSigaction("act_sighup", "SIGHUP", "act_sigterm")
  \/ ActivateSigaction("act_sigterm", "SIGTERM", "act_sigpipe")
  \/ ActivateSigaction("act_sigpipe", "SIGPIPE", "act_sigchld")
  \/ ActivateSigchld
  \/ ActivateSet
  \/ EnterLoop
  \/ \E op \in DispatchOps, connected \in BOOLEAN : CallDispatch(op, connected)
  \/ LoopCheck
  \/ \E res \in {"conn", "none", "fail"}, forked \in BOOLEAN : Accept(res, forked)
  \/ CloseListener

NextServer ==
  \/ MainThread
  \/ \E i \in DOMAIN conns, r \in HandlerResults : WorkerHandler(i, r)
  \/ \E i \in DOMAIN conns : WorkerRelease(i)
  \/ \E i \in DOMAIN conns : ChildDrop(i)
  \/ \E i \in DOMAIN conns, r \in HandlerResults : ChildHandler(i, r)
  \/ \E sig \in Signals : Signal(sig)

SpecServer == InitServer /\ [][NextServer]_vars

\* the main thread is scheduled: a step it can take is taken in the end,
\* and every accept call returns
FairServer == SpecServer /\ WF_vars(MainThread)

(***************************************************************************)
(* The child-termination branch of signal_handler: the loop around         *)
(* waitpid(-1, &status, WNOHANG).  waitpid returns the pid of a terminated *)
(* child it reaped (here its index), 0 when children exist and none has    *)
(* terminated, and -1 with errno ECHILD when there is no child left to     *)
(* wait for, or with errno EINTR when it was interrupted.                  *)
(***************************************************************************)
Zombies == {i \in 1..Len(children) : children[i] = "zombie"}

Running == {i \in 1..Len(children) : children[i] = "running"}

\* the break of the loop with the interrupted call taken for an error too
reapBreaksMutant(ret, err) == ret < 0

\* the break of the loop: ret < 0 && errno != EINTR
reapBreaks(ret, err) == ret < 0 /\ err # "EINTR"

\* the loop condition: ret != 0
reapAgain(ret) == ret # 0

InitReap ==
  /\ Constructed
  /\ is_active \in BOOLEAN
  /\ sigDisp = [sig \in {"SIGINT", "SIGHUP", "SIGTERM", "SIGPIPE", "SIGCHLD"} |->
                  "signal_handler"]
  /\ signalled = FALSE
  /\ pc = "idle"
  /\ entry = "none"
  /\ activated = is_active
  /\ listener = [kind |-> "none", connected |-> FALSE, closed |-> FALSE]
  /\ entryActive = "unset"
  /\ acceptCalled = FALSE
  /\ conns = <<>>
  /\ CodecIdle
  /\ children \in SeqsUpTo({"running", "zombie"}, MaxChildren)
  /\ reap = [pc |-> "idle"]

\* a running child terminates
ChildExit(i) ==
  /\ i \in Running
  /\ children' = [children EXCEPT ![i] = "zombie"]
  /\ UNCHANGED reap
  /\ UNCHANGED configVars
  /\ UNCHANGED serverVars
  /\ UNCHANGED codecVars

\* signal_handler(SIGCHLD) is entered: pid_t ret = -1
HandlerStart ==
  /\ reap.pc \in {"idle", "done"}
  /\ sigDisp["SIGCHLD"] = "signal_handler"
  /\ reap' = [pc |-> "loop", ret |-> -1, err |-> "none", intr |-> 0,
              found |-> Zombies, active |-> is_active]
  /\ UNCHANGED children
  /\ UNCHANGED configVars
  /\ UNCHANGED serverVars
  /\ UNCHANGED codecVars

\* one round of the loop: the call of waitpid and the two tests
Waitpid(ret, err) ==
  /\ reap.pc = "loop"
  /\ \/ /\ ret \in Zombies
        /\ err = reap.err
        /\ children' = [children EXCEPT ![ret] = "reaped"]
     \/ /\ ret = 0
        /\ err = reap.err
        /\ Zombies = {} /\ Running # {}
        /\ UNCHANGED children
     \/ /\ ret = -1
        /\ err = "ECHILD"
        /\ Zombies = {} /\ Running = {}
        /\ UNCHANGED children
     \/ /\ ret = -1
        /\ err = "EINTR"
        /\ reap.intr < MaxIntr
        /\ UNCHANGED children
  /\ reap' = [reap EXCEPT !.ret = ret, !.err = err,
                          !.intr = IF err = "EINTR" /\ ret = -1 THEN @ + 1 ELSE @,
                          !.pc = IF reapBreaks(ret, err) \/ ~reapAgain(ret)
                                 THEN "done" ELSE "loop"]
  /\ UNCHANGED configVars
  /\ UNCHANGED serverVars
  /\ UNCHANGED codecVars

\* the steps of the handler
Reap ==
  \E ret \in -1..MaxChildren, err \in {"none", "ECHILD", "EINTR"} : Waitpid(ret, err)

NextReap ==
  \/ \E i \in 1..MaxChildren : ChildExit(i)
  \/ HandlerStart
  \/ Reap

SpecReap == InitReap /\ [][NextReap]_vars

\* the handler, once entered, runs on
FairReap == SpecReap /\ WF_vars(Reap)

(***************************************************************************)
(* The claims about the service.                                           *)
(***************************************************************************)
\* C5: the activation flag goes one way: once the signal handler has set
\* it false it is never true again, however the delivery of the signal
\* interleaves with activate() and the accept loop.
FlagStaysFalseOnceSignalled == signalled => ~is_active

\* C6: an interrupt, hangup or terminate signal that the installed handler
\* received is never lost: the accept loop exits in the end, the listener
\* is closed and the dispatcher returns (every accept call returning).
TermSignalEndsDispatch == signalled ~> (pc = "returned" \/ status # "running")

\* C7: threadServer and forkServer called while the activation flag is
\* false never call accept; they close the listener and return, and no
\* connection, thread or child comes to exist.
InactiveDispatchNeverAccepts ==
  entryActive = "inactive"
    => /\ ~acceptCalled
       /\ conns = <<>>
       /\ pc \in {"loop", "close", "returned"}
       /\ pc = "returned" => (listener.closed /\ ~listener.connected /\ retval = IntV(0))

\* threadServer was called on a connected listener with the flag false, and
\* has returned
InactiveDispatchWitness ==
  /\ entryActive = "inactive"
  /\ entry = "threadServer"
  /\ call.connected
  /\ pc = "returned"
  /\ listener.closed

\* C8: in the thread-per-connection dispatch every accepted connection
\* belongs to one worker thread, which calls the handler once and then,
\* whatever the handler returned, closes and deletes the connection once;
\* the accept loop closes no accepted connection.
WorkerClosesExactlyOnce ==
  Threaded =>
    \A i \in DOMAIN conns :
      LET c == conns[i]
      IN  /\ c.owner = "thread"
          /\ c.loopCloses = 0
          /\ c.parentDrops = 0
          /\ c.st \in {"started", "handled", "done"}
          /\ c.st = "started" => (c.handlerCalls = 0 /\ c.closes = 0 /\ c.deletes = 0)
          /\ c.st = "handled" => (c.handlerCalls = 1 /\ c.closes = 0 /\ c.deletes = 0)
          /\ c.st = "done" => (c.handlerCalls = 1 /\ c.closes = 1 /\ c.deletes = 1)

\* a worker whose handler returned an error has closed its connection,
\* while a second connection was accepted
WorkerClosesWitness ==
  /\ Len(conns) = 2
  /\ conns[1].owner = "thread"
  /\ conns[1].st = "done"
  /\ conns[1].hret = 1
  /\ conns[1].closes = 1

\* C9: in the process-per-connection dispatch every accepted connection
\* belongs to one child, which drops (and does not close) the listener,
\* calls the handler once, returns its value and never calls accept; the
\* parent only drops its reference and never calls the handler.
EachConnectionHasOneChild ==
  entry \in {"serveForkedSocket", "forkServer"} =>
    \A i \in DOMAIN conns :
      LET c == conns[i]
      IN  /\ c.owner = "child"
          /\ c.parentDrops = 1
          /\ c.loopCloses = 0
          /\ c.lsnCloses = 0
          /\ c.childAccepts = 0
          /\ c.st = "started" => (c.lsnDrops = 0 /\ c.handlerCalls = 0)
          /\ c.st = "dropped" => (c.lsnDrops = 1 /\ c.handlerCalls = 0)
          /\ c.st = "returned" => (c.lsnDrops = 1 /\ c.handlerCalls = 1 /\ c.childRet = c.hret)

\* C10: serveThreadedSocket and serveForkedSocket without a connected
\* listener return 1 to the caller: exit() is not called, activate() is not
\* entered (the flag, the signal dispositions and the "username" and
\* "daemonize" options are what they were) and accept is never called.
\* activate() is entered only with a connected listener, and has installed
\* the handlers before the dispatch loop is entered.
ServeFailsWithoutActivate ==
  /\ (call.op \in ServeOps /\ ~call.connected)
       => /\ pc = "returned"
          /\ retval = IntV(1)
          /\ exitCode = -1
          /\ ~activated
          /\ is_active = call.active
          /\ sigDisp = call.sig
          /\ ~acceptCalled
          /\ conns = <<>>
          /\ \A n \in {"username", "daemonize"} :
               /\ isMember(vals, n) = isMember(call.before, n)
               /\ isMember(vals, n) => vals[n] = call.before[n]
  /\ (entry \in ServeOps /\ activated) => call.connected
  /\ (entry \in ServeOps /\ (pc \in {"act_ret", "loop", "accept", "close"} \/ acceptCalled))
       => /\ activated
          /\ \A sig \in {"SIGINT", "SIGHUP", "SIGTERM", "SIGPIPE"} :
               sigDisp[sig] = "signal_handler"

\* serveForkedSocket could not open the TCP listener its options name, and
\* has returned
ServeFailsWitness ==
  /\ call.op = "serveForkedSocket"
  /\ isMember(call.before, "listen_port")
  /\ isMember(call.before, "daemonize")
  /\ ~call.connected
  /\ pc = "returned"
  /\ retval = IntV(1)

\* the signals the handler takes for a request to stop
TermSignals == {"SIGINT", "SIGHUP", "SIGTERM"}

\* C16: the activation flag changes value only where activate() sets it
\* true and where the signal handler sets it false on an interrupt, hangup
\* or terminate signal, which is all the handler then does; the handler
\* leaves it alone on every other signal, and so does every step of the
\* accept loop, of a worker and of a child.
FlagWrittenOnlyByActivateAndHandler ==
  [][/\ is_active' # is_active
          => \/ ActivateSet
             \/ \E sig \in TermSignals :
                  sigDisp[sig] = "signal_handler" /\ Signal(sig) /\ ~is_active'
     /\ \A sig \in TermSignals :
          (sigDisp[sig] = "signal_handler" /\ Signal(sig))
            => (~is_active' /\ UNCHANGED configVars /\ UNCHANGED codecVars
                  /\ UNCHANGED <<sigDisp, pc, entry, activated, listener, entryActive,
                                 acceptCalled, conns>>)
     /\ \A sig \in Signals \ TermSignals : Signal(sig) => is_active' = is_active]_vars

\* the handler cleared the flag while the accept loop was running, after a
\* connection was accepted with the flag true
FlagWrittenWitness ==
  /\ signalled
  /\ ~is_active
  /\ activated
  /\ acceptCalled
  /\ Len(conns) > 0
  /\ pc = "accept"

\* C17: the listener serve*Socket uses is the local socket whenever a
\* "socket" option is registered, and the TCP listener of "listen_port" and
\* "listen_interface" only when none is.
SocketListenerPrecedence ==
  call.op \in ServeOps =>
    /\ isMember(call.before, "socket") => listener.kind = "unix"
    /\ listener.kind = "tcp" => ~isMember(call.before, "socket")

\* what the code keeps instead: the TCP listener is used whenever both
\* "listen_port" and "listen_interface" are registered, and the local
\* socket only when they are not
TcpListenerPrecedence ==
  call.op \in ServeOps =>
    LET tcp == isMember(call.before, "listen_port") /\ isMember(call.before, "listen_interface")
    IN  /\ tcp => listener.kind = "tcp"
        /\ (~tcp /\ isMember(call.before, "socket")) => listener.kind = "unix"
        /\ (~tcp /\ ~isMember(call.before, "socket")) => listener.kind = "none"

\* activate() has run to its end, and call.sig holds the dispositions it
\* found
ActivateDone ==
  /\ call.op \in ServeOps \cup {"activate"}
  /\ activated
  /\ pc \in {"idle", "act_ret", "loop", "accept", "close", "returned"}

\* the four handlers activate() always installs
TermHandlersInstalled ==
  \A sig \in {"SIGINT", "SIGHUP", "SIGTERM", "SIGPIPE"} : sigDisp[sig] = "signal_handler"

\* C18 as stated: activate() installs the handler for SIGCHLD only when
\* neither a custom handler nor an explicit ignore is installed for it,
\* both of which are still in place after it; the handlers of SIGINT,
\* SIGHUP, SIGTERM and SIGPIPE are always replaced.
SigchldKeptWhenCustomOrIgnored ==
  ActivateDone =>
    /\ call.sig["SIGCHLD"] \in {"custom", "SIG_IGN"} => sigDisp["SIGCHLD"] = call.sig["SIGCHLD"]
    /\ call.sig["SIGCHLD"] = "SIG_DFL" => sigDisp["SIGCHLD"] = "signal_handler"
    /\ TermHandlersInstalled

\* C18 as amended: activate() installs the handler for SIGCHLD when the
\* disposition it finds is the default or the explicit ignore, and leaves
\* only a custom handler in place; the handlers of SIGINT, SIGHUP, SIGTERM
\* and SIGPIPE are always replaced.
SigchldKeptOnlyWhenCustom ==
  ActivateDone =>
    /\ call.sig["SIGCHLD"] = "custom" => sigDisp["SIGCHLD"] = "custom"
    /\ call.sig["SIGCHLD"] \in {"SIG_DFL", "SIG_IGN"} => sigDisp["SIGCHLD"] = "signal_handler"
    /\ TermHandlersInstalled

\* activate() ran where SIGCHLD and SIGPIPE were explicitly ignored, and
\* replaced both
SigchldWitness ==
  /\ ActivateDone
  /\ call.sig["SIGCHLD"] = "SIG_IGN"
  /\ call.sig["SIGPIPE"] = "SIG_IGN"
  /\ sigDisp["SIGCHLD"] = "signal_handler"
  /\ sigDisp["SIGPIPE"] = "signal_handler"

\* the handler returned
ReapDone == reap.pc = "done"

\* C23: the child-termination branch of the handler always terminates; it
\* retries the non-blocking reap after a reaped child and after an
\* interrupted call, and stops when no terminated child is pending or on
\* another wait error; when it stops every child that had terminated when
\* the handler started is reaped and is_active is what it was.
ReapTerminatesClean ==
  /\ [](ReapDone =>
          /\ \A i \in reap.found : children[i] = "reaped"
          /\ is_active = reap.active
          /\ reap.ret = 0 \/ (reap.ret = -1 /\ reap.err = "ECHILD"))
  /\ (reap.pc = "loop") ~> ReapDone

\* the handler returned after an interrupted call, having reaped two
\* children that had terminated before it started
ReapWitness ==
  /\ ReapDone
  /\ reap.found = {1, 2}
  /\ reap.intr > 0
  /\ children = <<"reaped", "reaped">>

\* the main thread is in the loop of threadServer or forkServer
InLoop == pc \in {"loop", "accept"}

\* the connection i was handed to a thread or a child whose handler has
\* not returned
HandlerPending(i) ==
  /\ conns[i].owner \in {"thread", "child"}
  /\ conns[i].handlerCalls = 0

\* C24: a handler that never returns blocks only its own thread or child;
\* the loop goes on from the loop test to accept while is_active is true
\* and the listener connected, every round of its body comes back to the
\* loop test, and once is_active is false the loop ends and the dispatcher
\* returns, whatever the threads and children do.
StuckHandlerBlocksOnlyItself ==
  /\ (pc = "loop" /\ is_active /\ listener.connected)
       ~> (pc \in {"accept", "close"} \/ status # "running")
  /\ (pc = "accept") ~> (pc = "loop" \/ status # "running")
  /\ (InLoop /\ ~is_active) ~> (pc = "returned" \/ status # "running")

\* the dispatcher returned after it had handed out a second connection
\* while the handler of the first had not returned, and has not since
StuckHandlerWitness ==
  /\ pc = "returned"
  /\ status = "running"
  /\ Len(conns) = 2
  /\ HandlerPending(1)
  /\ conns[2].owner \in {"thread", "child"}

====
